---- MODULE Spec2Model ----
(***************************************************************************)
(* Smart-city pollution monitor: the AQI classifier, the synthetic reading *)
(* generator, the real-time fetch with its simulated fallback, and the     *)
(* dashboard's trend / comparison / aggregation logic.                     *)
(*                                                                         *)
(* Numbers are fixed point.  "milli" is 1/1000 of a unit and is used for   *)
(* unrounded concentrations; "centi" is 1/100 and is what round(x, 2)      *)
(* stores; "deci" is 1/10 and is what round(x, 1) stores.  Python's round  *)
(* is modelled as round-half-to-even on the exact value (a float tie may   *)
(* fall one unit to either side; no property below depends on a tie).      *)
(***************************************************************************)
EXTENDS Integers, Sequences, FiniteSets, TLC

VARIABLES
    aqi_in,      \* <<a, b>>: two PM2.5 arguments (milli) handed to calculate_aqi
    aqi_out,     \* <<>> before the calls, then <<ra, rb>>: what each call returned
    status_in,   \* <<t, n>>: a temperature and a noise level (Python values, deci)
    status_out,  \* what get_temperature_status and get_noise_status returned for them
    rt_in,       \* <<c>>: the location argument and the three endpoints' responses of a call
    rt_out,      \* <<>> before the call, then <<what get_realtime_open_meteo did>>
    cmp_in,      \* <<sim, real>>: the arguments of one call of compute_comparison
    cmp_out,     \* <<>> before the call, then <<what compute_comparison did>>
    zones,       \* the Zone table
    readings,    \* the PollutionReading table
    clock,       \* the wall clock (datetime.utcnow()), in seconds
    sim_call,    \* <<>>, or <<the arguments and start of the last simulate_pollution_data>>
    view,        \* <<>>, or <<the arguments the dashboard handed to its template>>
    session,     \* the client's Flask session cookie
    remember_cookie, \* the id of the user in Flask-Login's remember cookie, or 0
    settings,    \* the Settings table (at most one row)
    response     \* <<>>, or <<the request just served and its response>>

aqiVars == <<aqi_in, aqi_out, status_in, status_out>>
rtVars == <<rt_in, rt_out>>
cmpVars == <<cmp_in, cmp_out>>
dbVars == <<zones, readings, clock, sim_call>>
webVars == <<session, remember_cookie, settings, response>>
vars == <<aqi_in, aqi_out, status_in, status_out, rt_in, rt_out, cmp_in, cmp_out, zones, readings, clock,
          sim_call, view, session, remember_cookie, settings, response>>

\* Python's None where a string is expected.
None == "None"

\* An optional number: Null is Python's None, Some(v) the number v.
Null == <<>>

Some(v) == <<v>>

Val(o) == o[1]

(***************************************************************************)
(* Arithmetic helpers                                                      *)
(***************************************************************************)
Abs(x) == IF x < 0 THEN -x ELSE x

\* max() that lets its second argument through.
MaxUnfloored(x, y) == y

Max(x, y) == IF x >= y THEN x ELSE y

Min(x, y) == IF x <= y THEN x ELSE y

\* Python round(): n/d rounded to the nearest integer, ties to even (d # 0).
RoundDiv(n, d) ==
    LET nn == IF d < 0 THEN -n ELSE n
        dd == Abs(d)
        q  == nn \div dd
        r  == nn % dd
    IN  IF 2 * r < dd THEN q
        ELSE IF 2 * r > dd THEN q + 1
        ELSE IF q % 2 = 0 THEN q ELSE q + 1

RECURSIVE SumSeq(_)
SumSeq(xs) == IF xs = <<>> THEN 0 ELSE Head(xs) + SumSeq(Tail(xs))

\* Python max(seq, key=...) / min(seq, key=...): the first extreme element.
\* The last index of a maximal key.
IndexOfMaxLast(keys) ==
    CHOOSE i \in 1..Len(keys) :
        /\ \A j \in 1..Len(keys) : keys[j] <= keys[i]
        /\ \A j \in (i + 1)..Len(keys) : keys[j] < keys[i]

IndexOfMax(keys) ==
    CHOOSE i \in 1..Len(keys) :
        /\ \A j \in 1..Len(keys) : keys[j] <= keys[i]
        /\ \A j \in 1..(i - 1) : keys[j] < keys[i]

IndexOfMin(keys) ==
    CHOOSE i \in 1..Len(keys) :
        /\ \A j \in 1..Len(keys) : keys[j] >= keys[i]
        /\ \A j \in 1..(i - 1) : keys[j] > keys[i]

(***************************************************************************)
(* app/services/aqi.py: calculate_aqi                                      *)
(***************************************************************************)
\* (bp_lo, bp_hi, aqi_lo, aqi_hi), concentrations in milli.
breakpoints ==
    << <<0,      12000,  0,   50>>,
       <<12100,  35400,  51,  100>>,
       <<35500,  55400,  101, 150>>,
       <<55500,  150400, 151, 200>>,
       <<150500, 250400, 201, 300>>,
       <<250500, 350400, 301, 400>>,
       <<350500, 500400, 401, 500>> >>

\* The ranges whose test  bp_lo <= pm25 <= bp_hi  succeeds.
MatchingRanges(pm25) ==
    {i \in 1..Len(breakpoints) :
        breakpoints[i][1] <= pm25 /\ pm25 <= breakpoints[i][2]}

\* The range the loop returns from: the first match, 0 when the loop falls through.
FirstMatch(pm25) ==
    IF MatchingRanges(pm25) = {} THEN 0
    ELSE CHOOSE i \in MatchingRanges(pm25) :
            \A j \in MatchingRanges(pm25) : i <= j

\* The interpolation of range i cut down to a whole number, not rounded.
InterpolateTruncated(i, pm25) ==
    LET bp == breakpoints[i]
    IN  bp[3] + (((bp[4] - bp[3]) * (pm25 - bp[1])) \div (bp[2] - bp[1]))

\* The interpolated index inside range i:
\* round(aqi_low + (aqi_high - aqi_low) / (pm_high - pm_low) * (pm25 - pm_low)).
Interpolate(i, pm25) ==
    LET bp == breakpoints[i]
    IN  RoundDiv(bp[3] * (bp[2] - bp[1]) + (bp[4] - bp[3]) * (pm25 - bp[1]),
                 bp[2] - bp[1])

calculate_aqi(pm25) ==
    IF FirstMatch(pm25) = 0 THEN 500
    ELSE Interpolate(FirstMatch(pm25), pm25)

(***************************************************************************)
(* app/services/aqi.py: the status helpers.  Only the level is modelled;   *)
(* colour and description are fixed per level.                             *)
(***************************************************************************)
\* A Python value where a number is expected: Num(v), PyNone, or NotANumber
\* (a value float() or arithmetic rejects).
Num(v) == [kind |-> "num", v |-> v]

PyNone == [kind |-> "null", v |-> 0]

NotANumber == [kind |-> "bad", v |-> 0]

\* float('nan'): float() accepts it and every comparison with it is false.
FloatNaN == [kind |-> "nan", v |-> 0]

\* The classifier with its first comparison strict.
calculate_aqi_status_strict(pm25) ==
    IF pm25 < 12000 THEN "Good"
    ELSE IF pm25 <= 35400 THEN "Moderate"
    ELSE IF pm25 <= 55400 THEN "Unhealthy for Sensitive Groups"
    ELSE IF pm25 <= 150400 THEN "Unhealthy"
    ELSE IF pm25 <= 250400 THEN "Very Unhealthy"
    ELSE "Hazardous"

\* pm25 in milli.
calculate_aqi_status(pm25) ==
    IF pm25 <= 12000 THEN "Good"
    ELSE IF pm25 <= 35400 THEN "Moderate"
    ELSE IF pm25 <= 55400 THEN "Unhealthy for Sensitive Groups"
    ELSE IF pm25 <= 150400 THEN "Unhealthy"
    ELSE IF pm25 <= 250400 THEN "Very Unhealthy"
    ELSE "Hazardous"

\* Classifiers whose boundary value falls on the other side; used to test
\* the threshold checks.
get_temperature_status_strict(temp_celsius) ==
    IF temp_celsius.kind \notin {"num", "nan"} THEN "No Data"
    ELSE IF temp_celsius.kind = "num" /\ temp_celsius.v < 150 THEN "Cool"
    ELSE IF temp_celsius.kind = "num" /\ temp_celsius.v <= 250 THEN "Normal"
    ELSE "Hot"

get_noise_status_inclusive(noise_db) ==
    IF noise_db.kind \notin {"num", "nan"} THEN "No Data"
    ELSE IF noise_db.kind = "num" /\ noise_db.v <= 600 THEN "Low"
    ELSE IF noise_db.kind = "num" /\ noise_db.v <= 750 THEN "Moderate"
    ELSE "High"

\* temp_celsius a Python value in deci.  None and a value float() rejects
\* return at lines 72-77; a NaN fails both comparisons.
get_temperature_status(temp_celsius) ==
    IF temp_celsius.kind \notin {"num", "nan"} THEN "No Data"
    ELSE IF temp_celsius.kind = "num" /\ temp_celsius.v <= 150 THEN "Cool"
    ELSE IF temp_celsius.kind = "num" /\ temp_celsius.v <= 250 THEN "Normal"
    ELSE "Hot"

\* noise_db a Python value in deci.
get_noise_status(noise_db) ==
    IF noise_db.kind \notin {"num", "nan"} THEN "No Data"
    ELSE IF noise_db.kind = "num" /\ noise_db.v < 600 THEN "Low"
    ELSE IF noise_db.kind = "num" /\ noise_db.v <= 750 THEN "Moderate"
    ELSE "High"

(***************************************************************************)
(* app/services/realtime.py: get_realtime_open_meteo                       *)
(*                                                                         *)
(* The three HTTP requests are the call's inputs.  A response is a record  *)
(* whose kind is "ok" (status 200 and a JSON body), "http_error" (another  *)
(* status), "timeout" (requests.exceptions.Timeout), "exception" (any      *)
(* other exception raised by the request) or "malformed" (status 200 but   *)
(* reading the body raises).  Concentrations parsed from a body are milli, *)
(* temperatures centi; a field of the body is a number, None (null) or     *)
(* "bad" (float() raises on it).                                           *)
(***************************************************************************)
SimulatedSources ==
    [pm25 |-> "simulated", pm10 |-> "simulated",
     temperature |-> "simulated", noise |-> "simulated"]

\* An exception travelling up to the outer handlers, or a value.
Raise(kind, text) == [exc |-> kind, text |-> text]

NoExc == [exc |-> None, text |-> None]

\* Lines 79-90: what the location argument resolves to.
ResolveLocation(location) ==
    CASE location.kind = "coords"      -> [flow |-> NoExc, city_name |-> None, coords |-> TRUE]
      [] location.kind = "bad_coords"  -> [flow |-> Raise("Exception", "could not convert string to float"),
                                           city_name |-> None, coords |-> FALSE]
      [] location.kind = "dict_coords" -> [flow |-> NoExc, city_name |-> None, coords |-> TRUE]
      [] location.kind = "dict_empty"  -> [flow |-> NoExc, city_name |-> None, coords |-> FALSE]
      [] location.kind = "dict_bad"    -> [flow |-> Raise("Exception", "could not convert string to float"),
                                           city_name |-> None, coords |-> FALSE]
      [] location.kind = "city"        -> [flow |-> NoExc, city_name |-> location.name, coords |-> FALSE]
      [] OTHER                         -> [flow |-> NoExc, city_name |-> "str(location)", coords |-> FALSE]

\* Lines 204-228: every value drawn, every source 'simulated', error True.
build_simulated_fallback_result(city_name, sources, message, rnd) ==
    [error |-> TRUE,
     message |-> message,
     city |-> city_name,
     pm25 |-> rnd.pm25,
     pm10 |-> RoundDiv(rnd.pm25 * rnd.pm10_factor, 100),
     temperature |-> rnd.temperature,
     noise |-> rnd.noise,
     source |-> SimulatedSources]

\* A geocoding step that does not stop at a non-200 status and goes on to
\* the other endpoints; used to test the no-retry check.
GeocodeIgnoringStatus(loc, geo) ==
    IF loc.city_name \in {None, ""} \/ loc.coords
    THEN [flow |-> NoExc, ret |-> None, requested |-> FALSE,
          city_name |-> loc.city_name, coords |-> loc.coords]
    ELSE CASE geo.kind = "timeout" ->
                [flow |-> Raise("Timeout", "timed out"), ret |-> None, requested |-> TRUE,
                 city_name |-> loc.city_name, coords |-> FALSE]
           [] geo.kind \in {"exception", "malformed"} ->
                [flow |-> Raise("Exception", geo.kind), ret |-> None, requested |-> TRUE,
                 city_name |-> loc.city_name, coords |-> FALSE]
           [] geo.kind = "ok" /\ ~geo.found ->
                [flow |-> NoExc, ret |-> "City not found", requested |-> TRUE,
                 city_name |-> loc.city_name, coords |-> FALSE]
           [] OTHER ->
                [flow |-> NoExc, ret |-> None, requested |-> TRUE,
                 city_name |-> loc.city_name,
                 coords |-> TRUE]

\* Lines 93-105: the geocoding request, made only for a truthy city name
\* without coordinates.  ret is the message of an early fallback return.
Geocode(loc, geo) ==
    IF loc.city_name \in {None, ""} \/ loc.coords
    THEN [flow |-> NoExc, ret |-> None, requested |-> FALSE,
          city_name |-> loc.city_name, coords |-> loc.coords]
    ELSE CASE geo.kind = "timeout" ->
                [flow |-> Raise("Timeout", "timed out"), ret |-> None, requested |-> TRUE,
                 city_name |-> loc.city_name, coords |-> FALSE]
           [] geo.kind \in {"exception", "malformed"} ->
                [flow |-> Raise("Exception", geo.kind), ret |-> None, requested |-> TRUE,
                 city_name |-> loc.city_name, coords |-> FALSE]
           [] geo.kind = "http_error" ->
                [flow |-> NoExc, ret |-> "Geocoding failed", requested |-> TRUE,
                 city_name |-> loc.city_name, coords |-> FALSE]
           [] geo.kind = "ok" /\ ~geo.found ->
                [flow |-> NoExc, ret |-> "City not found", requested |-> TRUE,
                 city_name |-> loc.city_name, coords |-> FALSE]
           [] OTHER ->
                [flow |-> NoExc, ret |-> None, requested |-> TRUE,
                 city_name |-> IF geo.name \in {None, ""} THEN loc.city_name ELSE geo.name,
                 coords |-> geo.latlon]

\* Lines 111-146: the air-quality request inside its own try/except.  The
\* latest non-null pm2_5 and pm10 are parsed; any exception ends the block
\* and keeps what was assigned before it.
AirQuality(aq, sources) ==
    IF aq.kind # "ok" \/ ~aq.times
    THEN [pm25_api |-> Null, pm10_api |-> Null, sources |-> sources]
    ELSE IF aq.pm25.kind = "bad"
    THEN [pm25_api |-> Null, pm10_api |-> Null, sources |-> sources]
    ELSE LET p25 == IF aq.pm25.kind = "null" THEN Null ELSE Some(aq.pm25.v)
             s1  == IF aq.pm25.kind = "null" THEN sources
                    ELSE [sources EXCEPT !.pm25 = "api"]
         IN  IF aq.pm10.kind \in {"null", "bad"}
             THEN [pm25_api |-> p25, pm10_api |-> Null, sources |-> s1]
             ELSE [pm25_api |-> p25, pm10_api |-> Some(aq.pm10.v),
                   sources |-> [s1 EXCEPT !.pm10 = "api"]]

\* Lines 149-167: the weather request inside its own try/except.
Weather(wx, sources) ==
    IF wx.kind # "ok" \/ wx.temperature.kind \in {"null", "bad"}
    THEN [temperature_api |-> Null, sources |-> sources]
    ELSE [temperature_api |-> Some(wx.temperature.v),
          sources |-> [sources EXCEPT !.temperature = "api"]]

\* ApplyFallbacks with the PM10 value always derived from PM2.5, the API's
\* PM10 being ignored while its source stays as recorded.
ApplyFallbacksIgnorePm10Api(city_name, pm25_api, pm10_api, temperature_api, sources, rnd) ==
    LET pm25_final == IF pm25_api # Null THEN RoundDiv(Val(pm25_api), 10) ELSE rnd.pm25
    IN  [error |-> FALSE,
         message |-> None,
         city |-> IF city_name \in {None, ""} THEN None ELSE city_name,
         pm25 |-> pm25_final,
         pm10 |-> RoundDiv(pm25_final * rnd.pm10_factor, 100),
         temperature |-> IF temperature_api # Null
                         THEN RoundDiv(Val(temperature_api), 10)
                         ELSE rnd.temperature,
         noise |-> rnd.noise,
         source |-> sources]

\* Lines 169-195: a missing API value is replaced by a drawn one and its
\* source reset to 'simulated'; noise is always drawn.
ApplyFallbacks(city_name, pm25_api, pm10_api, temperature_api, sources, rnd) ==
    LET pm25_final == IF pm25_api # Null THEN RoundDiv(Val(pm25_api), 10) ELSE rnd.pm25
        pm10_final == IF pm10_api # Null THEN RoundDiv(Val(pm10_api), 10)
                      ELSE RoundDiv(pm25_final * rnd.pm10_factor, 100)
        temperature_final == IF temperature_api # Null
                             THEN RoundDiv(Val(temperature_api), 10)
                             ELSE rnd.temperature
        s1 == IF pm25_api = Null THEN [sources EXCEPT !.pm25 = "simulated"] ELSE sources
        s2 == IF pm10_api = Null THEN [s1 EXCEPT !.pm10 = "simulated"] ELSE s1
        s3 == IF temperature_api = Null THEN [s2 EXCEPT !.temperature = "simulated"] ELSE s2
    IN  [error |-> FALSE,
         message |-> None,
         city |-> IF city_name \in {None, ""} THEN None ELSE city_name,
         pm25 |-> pm25_final,
         pm10 |-> pm10_final,
         temperature |-> temperature_final,
         noise |-> rnd.noise,
         source |-> s3]

\* OuterExcept with only the Timeout handler: any other exception leaves the call.
OuterExceptTimeoutOnly(flow, city_name, sources, rnd) ==
    IF flow.exc = "Timeout"
    THEN [raised |-> FALSE,
          result |-> build_simulated_fallback_result(
                         city_name, sources, "Request timed out", rnd)]
    ELSE [raised |-> TRUE, result |-> <<>>]

\* Lines 197-201: the outer handlers turn every exception into the fallback.
OuterExcept(flow, city_name, sources, rnd) ==
    IF flow.exc = "Timeout"
    THEN [raised |-> FALSE,
          result |-> build_simulated_fallback_result(
                         city_name, sources, "Request timed out", rnd)]
    ELSE [raised |-> FALSE,
          result |-> build_simulated_fallback_result(city_name, sources, flow.text, rnd)]

\* Lines 63-201.  The value is what the call did: whether it raised, the
\* dict it returned, the requests it made in order, and the three values
\* parsed from the API (None when none was parsed).
get_realtime_open_meteo(location, geo, aq, wx, rnd) ==
    LET loc == ResolveLocation(location)
        g   == Geocode(loc, geo)
        a   == AirQuality(aq, SimulatedSources)
        w   == Weather(wx, a.sources)
        greq == IF g.requested THEN <<"geocoding">> ELSE <<>>
        early(done, reqs) ==
            [raised |-> done.raised, result |-> done.result, requests |-> reqs,
             pm25_api |-> Null, pm10_api |-> Null, temperature_api |-> Null]
        returned(message, reqs) ==
            early([raised |-> FALSE,
                   result |-> build_simulated_fallback_result(
                                  g.city_name, SimulatedSources, message, rnd)], reqs)
    IN  IF loc.flow.exc # None
        THEN early(OuterExcept(loc.flow, loc.city_name, SimulatedSources, rnd), <<>>)
        ELSE IF g.flow.exc # None
        THEN early(OuterExcept(g.flow, g.city_name, SimulatedSources, rnd), greq)
        ELSE IF g.ret # None
        THEN returned(g.ret, greq)
        ELSE IF ~g.coords
        THEN returned("No coordinates available", greq)
        ELSE [raised |-> FALSE,
              result |-> ApplyFallbacks(g.city_name, a.pm25_api, a.pm10_api,
                                        w.temperature_api, w.sources, rnd),
              requests |-> greq \o <<"air_quality", "weather">>,
              pm25_api |-> a.pm25_api,
              pm10_api |-> a.pm10_api,
              temperature_api |-> w.temperature_api]

(***************************************************************************)
(* app/dashboard/services.py and app/dashboard/routes.py                   *)
(*                                                                         *)
(* The store is the Zone table (a sequence of [id, name], in query order)  *)
(* and the PollutionReading table (a sequence of rows in insertion order). *)
(* Stored concentrations are centi, temperature and noise Python values in *)
(* deci (the columns are nullable).                                        *)
(***************************************************************************)
\* The rows of one zone, and the row holding the k-th largest timestamp
\* (order_by(timestamp.desc()) with offset k - 1).
RowsOf(rows, zone_id) == {i \in 1..Len(rows) : rows[i].zone_id = zone_id}

RECURSIVE NthLatest(_, _, _)
NthLatest(rows, idx, k) ==
    IF idx = {} THEN <<>>
    ELSE LET top == CHOOSE i \in idx :
                        \A j \in idx : rows[j].timestamp <= rows[i].timestamp
         IN  IF k = 1 THEN <<rows[top]>>
             ELSE NthLatest(rows, idx \ {top}, k - 1)

\* services.py 36-47: change, percentage change and trend label.  prev is
\* <<>> or <<row>>; the percentage is centi-percent.
TrendInclusive(latest, prev) ==
    IF prev = <<>>
    THEN [pm25_change |-> Null, pm25_change_pct |-> Null, trend |-> "No Data"]
    ELSE LET pm25_change == latest.pm25 - prev[1].pm25
             pm25_pct == IF prev[1].pm25 # 0
                         THEN Some(RoundDiv(pm25_change * 10000, prev[1].pm25))
                         ELSE Null
         IN  [pm25_change |-> Some(pm25_change),
              pm25_change_pct |-> pm25_pct,
              trend |-> IF pm25_pct # Null /\ Abs(Val(pm25_pct)) <= 100 THEN "Stable"
                        ELSE IF pm25_change > 0 THEN "Increasing"
                        ELSE "Decreasing"]

Trend(latest, prev) ==
    IF prev = <<>>
    THEN [pm25_change |-> Null, pm25_change_pct |-> Null, trend |-> "No Data"]
    ELSE LET pm25_change == latest.pm25 - prev[1].pm25
             pm25_pct == IF prev[1].pm25 # 0
                         THEN Some(RoundDiv(pm25_change * 10000, prev[1].pm25))
                         ELSE Null
         IN  [pm25_change |-> Some(pm25_change),
              pm25_change_pct |-> pm25_pct,
              trend |-> IF pm25_pct # Null /\ Abs(Val(pm25_pct)) < 100 THEN "Stable"
                        ELSE IF pm25_change > 0 THEN "Increasing"
                        ELSE "Decreasing"]

\* The EPA category with the six-bucket boundary 35.4 in place of 35.0.
EpaCategoryFineBoundary(pm25_val) ==
    IF pm25_val <= 1200 THEN "Good"
    ELSE IF pm25_val <= 3540 THEN "Moderate"
    ELSE "Unhealthy"

\* services.py 49-56: the three-bucket EPA category.
EpaCategory(pm25_val) ==
    IF pm25_val <= 1200 THEN "Good"
    ELSE IF pm25_val <= 3500 THEN "Moderate"
    ELSE "Unhealthy"

\* services.py 25-65: the entry of one zone that has a reading.
ZoneInfo(zone, latest, prev) ==
    LET t == Trend(latest, prev)
    IN  [zone |-> zone,
         reading |-> latest,
         prev_reading |-> prev,
         status |-> calculate_aqi_status(latest.pm25 * 10),
         pm25_change |-> t.pm25_change,
         pm25_change_pct |-> t.pm25_change_pct,
         trend |-> t.trend,
         epa_category |-> EpaCategory(latest.pm25)]

\* services.py 21-68: the entries of the zones from position k on.
RECURSIVE ZoneEntries(_, _, _)
ZoneEntries(zs, rows, k) ==
    IF k > Len(zs) THEN <<>>
    ELSE LET latest == NthLatest(rows, RowsOf(rows, zs[k].id), 1)
             prev   == NthLatest(rows, RowsOf(rows, zs[k].id), 2)
         IN  (IF latest = <<>> THEN <<>>
              ELSE <<ZoneInfo(zs[k], latest[1], prev)>>)
             \o ZoneEntries(zs, rows, k + 1)

\* get_zone_data dividing the totals by the number of zones.
get_zone_data_by_all_zones(zs, rows) ==
    LET zone_data == ZoneEntries(zs, rows, 1)
        count == Len(zone_data)
        total_pm25 == SumSeq([i \in 1..count |-> zone_data[i].reading.pm25])
        total_pm10 == SumSeq([i \in 1..count |-> zone_data[i].reading.pm10])
    IN  [zone_data |-> zone_data,
         avg_pm25 |-> IF count > 0 THEN RoundDiv(total_pm25, Len(zs)) ELSE 0,
         avg_pm10 |-> IF count > 0 THEN RoundDiv(total_pm10, Len(zs)) ELSE 0]

\* services.py 13-73.
get_zone_data(zs, rows) ==
    LET zone_data == ZoneEntries(zs, rows, 1)
        count == Len(zone_data)
        total_pm25 == SumSeq([i \in 1..count |-> zone_data[i].reading.pm25])
        total_pm10 == SumSeq([i \in 1..count |-> zone_data[i].reading.pm10])
    IN  [zone_data |-> zone_data,
         avg_pm25 |-> IF count > 0 THEN RoundDiv(total_pm25, count) ELSE 0,
         avg_pm10 |-> IF count > 0 THEN RoundDiv(total_pm10, count) ELSE 0]

\* compute_comparison without its try/except around the subtraction.
compute_comparison_unguarded(sim, real) ==
    IF real.kind = "null"
    THEN [raised |-> FALSE, abs_diff |-> Null, pct_diff |-> Null, status |-> "No Data"]
    ELSE IF sim.kind # "num" \/ real.kind # "num"
    THEN [raised |-> TRUE, abs_diff |-> Null, pct_diff |-> Null, status |-> "TypeError"]
    ELSE LET abs_diff == RoundDiv(Abs(sim.v - real.v), 10)
         IN  [raised |-> FALSE,
              abs_diff |-> Some(abs_diff),
              pct_diff |-> IF real.v # 0 THEN Some(RoundDiv(abs_diff * 100000, real.v))
                           ELSE Null,
              status |-> IF sim.v > real.v THEN "Above"
                         ELSE IF sim.v < real.v THEN "Below"
                         ELSE "Equal"]

\* services.py 96-117.  sim and real are Python values in milli; abs_diff
\* is centi and pct_diff centi-percent.  abs(sim - real) raises TypeError
\* when either operand is no number, which the first try turns into No Data.
compute_comparison(sim, real) ==
    IF real.kind = "null"
    THEN [raised |-> FALSE, abs_diff |-> Null, pct_diff |-> Null, status |-> "No Data"]
    ELSE IF sim.kind # "num" \/ real.kind # "num"
    THEN [raised |-> FALSE, abs_diff |-> Null, pct_diff |-> Null, status |-> "No Data"]
    ELSE LET abs_diff == RoundDiv(Abs(sim.v - real.v), 10)
         IN  [raised |-> FALSE,
              abs_diff |-> Some(abs_diff),
              pct_diff |-> IF real.v # 0 THEN Some(RoundDiv(abs_diff * 100000, real.v))
                           ELSE Null,
              status |-> IF sim.v > real.v THEN "Above"
                         ELSE IF sim.v < real.v THEN "Below"
                         ELSE "Equal"]

\* A stored or fetched number rescaled to milli (scale 10 for centi, 100 for deci).
ToMilli(value, scale) ==
    IF value.kind = "num" THEN Num(value.v * scale) ELSE value

\* services.py 144-179: one metric of one zone.
Metric(sim, real, scale, source) ==
    LET c == compute_comparison(ToMilli(sim, scale), ToMilli(real, scale))
    IN  [simulated |-> sim, realtime |-> real, abs_diff |-> c.abs_diff,
         pct_diff |-> c.pct_diff, status |-> c.status, source |-> source]

\* services.py 76-185: every entry gains its four metrics and the two
\* descriptive statuses of its own temperature and noise.
enrich_zone_data_with_realtime(zone_data, realtime_data) ==
    LET src == realtime_data.source
        enriched(z) ==
            [zone |-> z.zone, reading |-> z.reading, prev_reading |-> z.prev_reading,
             status |-> z.status, pm25_change |-> z.pm25_change,
             pm25_change_pct |-> z.pm25_change_pct, trend |-> z.trend,
             epa_category |-> z.epa_category,
             metrics |->
                [pm25 |-> Metric(Num(z.reading.pm25), Num(realtime_data.pm25), 10, src.pm25),
                 pm10 |-> Metric(Num(z.reading.pm10), Num(realtime_data.pm10), 10, src.pm10),
                 temperature |-> Metric(z.reading.temperature,
                                        Num(realtime_data.temperature), 100,
                                        src.temperature),
                 noise_level |-> Metric(z.reading.noise_level,
                                        Num(realtime_data.noise), 100, src.noise)],
             temp_desc |-> get_temperature_status(z.reading.temperature),
             noise_desc |-> get_noise_status(z.reading.noise_level)]
    IN  [zone_data |-> [i \in 1..Len(zone_data) |-> enriched(zone_data[i])],
         sim_values |-> [i \in 1..Len(zone_data) |-> zone_data[i].reading.pm25],
         real_values |-> [i \in 1..Len(zone_data) |-> realtime_data.pm25]]

\* services.py 188-202: a tally initialised with every known label at 0.
Tally(labels, seen) ==
    [l \in labels |-> Cardinality({i \in 1..Len(seen) : seen[i] = l})]

\* services.py 214-236: the aggregate comparison.  diff_pct is not rounded
\* before the test; diff_pct < 1 is decided exactly.
ComparisonStatus(avg_sim_pm25, real_pm25_value) ==
    IF ~(avg_sim_pm25 > 0) THEN "unknown"
    ELSE IF \/ real_pm25_value = 0
            \/ real_pm25_value < 0
            \/ Abs(avg_sim_pm25 - real_pm25_value) * 100 < real_pm25_value
    THEN "equal"
    ELSE IF avg_sim_pm25 > real_pm25_value THEN "above"
    ELSE "below"

\* services.py 188-250.
compute_statistics(zone_data, sim_values, realtime_data, avg_pm25) ==
    LET avg_sim_pm25 == IF sim_values # <<>>
                        THEN RoundDiv(SumSeq(sim_values), Len(sim_values)) ELSE 0
        status == ComparisonStatus(avg_sim_pm25, realtime_data.pm25)
    IN  [trend_counts |-> Tally({"Increasing", "Decreasing", "Stable", "No Data"},
                                [i \in 1..Len(zone_data) |-> zone_data[i].trend]),
         epa_counts |-> Tally({"Good", "Moderate", "Unhealthy"},
                              [i \in 1..Len(zone_data) |-> zone_data[i].epa_category]),
         overall_epa_status |-> EpaCategory(avg_pm25),
         avg_sim_pm25 |-> avg_sim_pm25,
         real_pm25 |-> realtime_data.pm25,
         comparison_status |-> status,
         comparison_diff_pct |->
            IF status = "unknown" THEN Null
            ELSE IF realtime_data.pm25 = 0 THEN Some(0)
            ELSE Some(RoundDiv(Abs(avg_sim_pm25 - realtime_data.pm25) * 1000,
                               realtime_data.pm25)),
         total_zones |-> Len(zone_data)]

\* list.index(name): the first position holding the name.
IndexOfName(zone_data, name) ==
    CHOOSE i \in 1..Len(zone_data) :
        /\ zone_data[i].zone.name = name
        /\ \A j \in 1..(i - 1) : zone_data[j].zone.name # name

\* routes.py 26-76: the arguments handed to the dashboard template.
\* realtime is what the call of get_realtime_open_meteo returned; the call is
\* not made when no zone has a reading.
dashboard(zs, rows, realtime) ==
    LET zd == get_zone_data(zs, rows)
    IN  IF zd.zone_data = <<>>
        THEN [zone_data |-> <<>>, avg_pm25 |-> 0, avg_pm10 |-> 0,
              highest_zone |-> <<>>, lowest_zone |-> <<>>,
              realtime_data |-> <<>>, sim_values |-> <<>>, real_values |-> <<>>,
              highest_idx |-> Null, lowest_idx |-> Null,
              alerts |-> <<>>, stats |-> <<>>]
        ELSE LET e == enrich_zone_data_with_realtime(zd.zone_data, realtime)
                 keys == [i \in 1..Len(e.zone_data) |-> e.zone_data[i].reading.pm25]
                 highest_zone == e.zone_data[IndexOfMax(keys)]
                 lowest_zone == e.zone_data[IndexOfMin(keys)]
             IN  [zone_data |-> e.zone_data,
                  avg_pm25 |-> zd.avg_pm25,
                  avg_pm10 |-> zd.avg_pm10,
                  highest_zone |-> <<highest_zone>>,
                  lowest_zone |-> <<lowest_zone>>,
                  realtime_data |-> <<realtime>>,
                  sim_values |-> e.sim_values,
                  real_values |-> e.real_values,
                  highest_idx |-> Some(IndexOfName(e.zone_data, highest_zone.zone.name)),
                  lowest_idx |-> Some(IndexOfName(e.zone_data, lowest_zone.zone.name)),
                  alerts |-> SelectSeq(e.zone_data,
                                       LAMBDA z : z.epa_category = "Unhealthy"),
                  stats |-> <<compute_statistics(e.zone_data, e.sim_values, realtime,
                                                 zd.avg_pm25)>>]

(***************************************************************************)
(* app/services/simulation.py: simulate_pollution_data                     *)
(*                                                                         *)
(* Inside the generator concentrations, noise and temperature are milli    *)
(* and the PM10 factor is centi; the stored row holds their roundings.     *)
(* The clock counts seconds; every iteration reads it anew.                *)
(***************************************************************************)
\* simulation.py 15-24 (base values in whole units).
DEFAULT_CHARACTERISTICS == [pm25_base |-> 30, pm10_base |-> 45, noise_base |-> 60]

ZONE_CHARACTERISTICS(name) ==
    CASE name = "Kathmandu"  -> [pm25_base |-> 35, pm10_base |-> 50, noise_base |-> 75]
      [] name = "Bhaktapur"  -> [pm25_base |-> 25, pm10_base |-> 40, noise_base |-> 55]
      [] name = "Pokhara"    -> [pm25_base |-> 28, pm10_base |-> 42, noise_base |-> 58]
      [] name = "Gulmikot"   -> [pm25_base |-> 55, pm10_base |-> 80, noise_base |-> 85]
      [] name = "Lalitpur"   -> [pm25_base |-> 15, pm10_base |-> 25, noise_base |-> 45]
      [] name = "Biratnagar" -> [pm25_base |-> 30, pm10_base |-> 45, noise_base |-> 65]
      [] OTHER               -> DEFAULT_CHARACTERISTICS

TenMinutes == 600

\* timestamp.hour of a clock value in seconds.
HourOf(timestamp) == (timestamp \div 3600) % 24

\* A day whose rush hours start at 06:00; used to test the hour check.
TimeFactorEarlyRush(hour) ==
    IF (6 <= hour /\ hour <= 9) \/ (17 <= hour /\ hour <= 19) THEN 13
    ELSE IF 22 <= hour \/ hour <= 5 THEN 7
    ELSE 10

\* simulation.py 42-47: the time-of-day factor, in tenths.
TimeFactor(hour) ==
    IF (7 <= hour /\ hour <= 9) \/ (17 <= hour /\ hour <= 19) THEN 13
    ELSE IF 22 <= hour \/ hour <= 5 THEN 7
    ELSE 10

\* PM10 without the floor of 10.
Pm10NoFloor(pm25, factor, offset) == pm25 * factor + offset * 100

\* simulation.py 53-55: PM10 in units of 1/100000, floored at 10.
Pm10Of(pm25, factor, offset) == Max(1000000, pm25 * factor + offset * 100)

\* simulation.py 49-73: one reading.  d holds the four random.uniform draws
\* (pm25_noise, pm10_offset, noise_noise, temp_noise in milli; pm10_factor
\* in centi).
GenerateReading(zone, timestamp, d) ==
    LET characteristics == ZONE_CHARACTERISTICS(zone.name)
        time_factor == TimeFactor(HourOf(timestamp))
        pm25 == Max(5000, characteristics.pm25_base * time_factor * 100 + d.pm25_noise)
        pm10 == Pm10Of(pm25, d.pm10_factor, d.pm10_offset)
        noise_level == Max(40000, Min(100000, characteristics.noise_base * 1000
                                               + d.noise_noise))
        temp == 20000 + d.temp_noise
    IN  [zone_id |-> zone.id,
         timestamp |-> timestamp,
         pm25 |-> RoundDiv(pm25, 10),
         pm10 |-> RoundDiv(pm10, 1000),
         noise_level |-> Num(RoundDiv(noise_level, 100)),
         temperature |-> Num(RoundDiv(temp, 100)),
         aqi |-> calculate_aqi(pm25)]

\* The clock value the k-th iteration reads: the seconds elapsed before each
\* of the first k reads added to the start.
RECURSIVE ClockAt(_, _, _)
ClockAt(start, draws, k) ==
    IF k = 0 THEN start ELSE ClockAt(start, draws, k - 1) + draws[k].elapsed

\* simulation.py 35-75: the rows added for zones zs from iteration k on
\* (k counts the iterations of both loops from 1).
RECURSIVE SimulatedRows(_, _, _, _, _)
SimulatedRows(zs, num_readings, start, draws, k) ==
    IF k > Len(zs) * num_readings THEN <<>>
    ELSE LET zone == zs[((k - 1) \div num_readings) + 1]
             i    == (k - 1) % num_readings
             timestamp == ClockAt(start, draws, k)
                          - TenMinutes * (num_readings - i - 1)
         IN  <<GenerateReading(zone, timestamp, draws[k])>>
             \o SimulatedRows(zs, num_readings, start, draws, k + 1)

(***************************************************************************)
(* Sessions, logins and the admin blueprint                                *)
(*                                                                         *)
(* The session cookie holds 'is_admin' ("absent" when the key is not set), *)
(* 'admin_username' and Flask-Login's '_user_id' (0 when not set).         *)
(***************************************************************************)
\* config.py 34-35.
ADMIN_USERNAME == "admin"

ADMIN_PASSWORD == "admin123"

\* The User table: a regular user and one whose is_admin column is true
\* (tests/test_endpoints.py 117-125).  password stands for the password
\* whose hash the row stores.
Users ==
    << [id |-> 1, username |-> "normal", password |-> "pass", is_admin |-> FALSE],
       [id |-> 2, username |-> "adminuser", password |-> "pass", is_admin |-> TRUE] >>

\* str.strip() on the form texts used below: surrounding blanks go.
strip(text) ==
    CASE text = " admin " -> "admin"
      [] text = " "       -> ""
      [] OTHER            -> text

\* session after session.clear(), and of a new client.
EmptySession == [is_admin |-> "absent", admin_username |-> None, user_id |-> 0]

\* Python truthiness of session.get('is_admin').
Truthy(flag) == flag = "True"

\* User.query.filter_by(username=username).first(): the row's index or 0.
UserByName(username) ==
    LET found == {i \in 1..Len(Users) : Users[i].username = username}
    IN  IF found = {} THEN 0 ELSE CHOOSE i \in found : \A j \in found : i <= j

\* check_password_hash(user.password_hash, password).
check_password_hash(user, password) == user.password = password

\* Flask-Login's current_user: the user of the session or, failing that,
\* of the remember cookie (0 is the anonymous user).
CurrentUserId(s, cookie) == IF s.user_id # 0 THEN s.user_id ELSE cookie

\* Loading current_user from the remember cookie writes it to the session.
LoadUser(s, cookie) == [s EXCEPT !.user_id = CurrentUserId(s, cookie)]

\* A gate that also lets any logged-in user through.
admin_or_user_required(s) == Truthy(s.is_admin) \/ s.user_id # 0

\* admin/decorators.py 23: TRUE when the wrapped handler runs.
admin_required(s) == Truthy(s.is_admin)

\* A login that leaves the session's is_admin as it finds it.
KeepAdminFlag(s) == s

\* auth/routes.py 88-89.
ClearAdminFlag(s) == IF Truthy(s.is_admin) THEN [s EXCEPT !.is_admin = "False"] ELSE s

\* What a handler answers.  ran: the handler reached its body (for a login,
\* the credentials were accepted); form: the request's inputs.
Resp(handler, status, location, ran, form) ==
    [handler |-> handler, status |-> status, location |-> location, ran |-> ran,
     form |-> form, flash |-> None]

\* The response with a message of the given category flashed.
Flashed(resp, category) == [resp EXCEPT !.flash = category]

\* The redirect of admin_required.
ToAdminLogin(handler, form) == Resp(handler, 302, "admin.admin_login", FALSE, form)

\* A bulk delete that removes nothing.
KeepRows(rows, zone_id) == rows

\* admin/routes.py 113: PollutionReading.query.filter_by(zone_id=zone_id).delete().
DeleteRows(rows, zone_id) == SelectSeq(rows, LAMBDA r : r.zone_id # zone_id)

\* admin/routes.py 114: db.session.delete(zone).
DeleteZoneRow(zs, zone_id) == SelectSeq(zs, LAMBDA z : z.id # zone_id)

\* Zone.query.get(zone_id): the row's index or 0.
ZoneById(zs, zone_id) ==
    LET found == {i \in 1..Len(zs) : zs[i].id = zone_id}
    IN  IF found = {} THEN 0 ELSE CHOOSE i \in found : TRUE

\* The primary key SQLite gives a new zone: one more than the largest.
NextZoneId(zs) ==
    IF zs = <<>> THEN 1
    ELSE 1 + (CHOOSE m \in {zs[i].id : i \in 1..Len(zs)} :
                 \A i \in 1..Len(zs) : zs[i].id <= m)

\* The parts of the state a specification does not exercise stay idle.
AqiIdle == aqi_in = <<>> /\ aqi_out = <<>> /\ status_in = <<>> /\ status_out = <<>>

RtIdle == rt_in = <<>> /\ rt_out = <<>>

CmpIdle == cmp_in = <<>> /\ cmp_out = <<>>

DbIdle == zones = <<>> /\ readings = <<>> /\ clock = 0 /\ sim_call = <<>>

ViewIdle == view = <<>>

WebIdle ==
    /\ session = EmptySession
    /\ remember_cookie = 0
    /\ settings = <<>>
    /\ response = <<>>

(***************************************************************************)
(* Specification SpecAqi: calculate_aqi applied to pairs of arguments      *)
(***************************************************************************)
GridPoints == 20

\* Arguments: a neighbourhood of every breakpoint at three resolutions
\* (tenths, hundredths, thousandths) and a coarse grid up to past the cap.
AqiInputs ==
    UNION { {b - 100, b - 50, b - 10, b - 4, b, b + 4, b + 10, b + 50, b + 100} :
              b \in {12000, 35400, 55400, 150400, 250400, 350400, 500400} }
    \cup {0, 10, 500, 6000, 20000, 45000, 100000, 200000, 300000, 400000, 1000000}
    \cup {k * 26000 : k \in 0..GridPoints}

InitAqi ==
    /\ aqi_in \in AqiInputs \X AqiInputs
    /\ aqi_out = <<>>
    /\ status_in = <<>> /\ status_out = <<>>
    /\ RtIdle /\ CmpIdle /\ DbIdle /\ ViewIdle /\ WebIdle

\* One call of calculate_aqi, the value returned and the range it was
\* returned from, and one of calculate_aqi_status.
AqiCall(pm25) ==
    [aqi |-> calculate_aqi(pm25), range |-> FirstMatch(pm25),
     status |-> calculate_aqi_status(pm25)]

CalculateAqi ==
    /\ aqi_out = <<>>
    /\ aqi_out' = <<AqiCall(aqi_in[1]), AqiCall(aqi_in[2])>>
    /\ UNCHANGED <<aqi_in, status_in, status_out, rtVars, cmpVars, dbVars, view, webVars>>

NextAqi == CalculateAqi

SpecAqi == InitAqi /\ [][NextAqi]_vars

(***************************************************************************)
(* Specification SpecStatus: get_temperature_status and get_noise_status   *)
(* applied to a temperature and a noise level                              *)
(***************************************************************************)
\* Arguments in deci: both sides of every threshold, values far from them,
\* None, a value float() rejects, and NaN.
TemperatureInputs ==
    {Num(v) : v \in {-400, 0, 149, 150, 151, 200, 249, 250, 251, 400}}
    \cup {PyNone, NotANumber, FloatNaN}

NoiseInputs ==
    {Num(v) : v \in {-10, 0, 599, 600, 601, 700, 749, 750, 751, 900}}
    \cup {PyNone, NotANumber, FloatNaN}

NotCalled == [temperature |-> <<>>, noise |-> <<>>]

InitStatus ==
    /\ status_in \in TemperatureInputs \X NoiseInputs
    /\ status_out = NotCalled
    /\ aqi_in = <<>> /\ aqi_out = <<>>
    /\ RtIdle /\ CmpIdle /\ DbIdle /\ ViewIdle /\ WebIdle

GetTemperatureStatus ==
    /\ status_in # <<>>
    /\ status_out.temperature = <<>>
    /\ status_out' = [status_out EXCEPT
                         !.temperature = <<get_temperature_status(status_in[1])>>]
    /\ UNCHANGED <<aqi_in, aqi_out, status_in, rtVars, cmpVars, dbVars, view, webVars>>

GetNoiseStatus ==
    /\ status_in # <<>>
    /\ status_out.noise = <<>>
    /\ status_out' = [status_out EXCEPT !.noise = <<get_noise_status(status_in[2])>>]
    /\ UNCHANGED <<aqi_in, aqi_out, status_in, rtVars, cmpVars, dbVars, view, webVars>>

NextStatus == GetTemperatureStatus \/ GetNoiseStatus

SpecStatus == InitStatus /\ [][NextStatus]_vars

(***************************************************************************)
(* Specification SpecRealtime: one call of get_realtime_open_meteo for     *)
(* every location argument and every combination of responses              *)
(***************************************************************************)
JsonNull == PyNone

Bad == NotANumber

Failure(kind) == [kind |-> kind]

Locations ==
    { [kind |-> "city", name |-> "Kathmandu"],   \* also location=None: Config.DEFAULT_CITY
      [kind |-> "city", name |-> ""],
      [kind |-> "coords"], [kind |-> "bad_coords"],
      [kind |-> "dict_coords"], [kind |-> "dict_empty"], [kind |-> "dict_bad"],
      [kind |-> "other"] }

FailureKinds == {"http_error", "timeout", "exception", "malformed"}

GeoResponses ==
    { [kind |-> "ok", found |-> TRUE, name |-> "Kathmandu", latlon |-> TRUE],
      [kind |-> "ok", found |-> TRUE, name |-> None, latlon |-> TRUE],
      [kind |-> "ok", found |-> TRUE, name |-> "Kathmandu", latlon |-> FALSE],
      [kind |-> "ok", found |-> FALSE, name |-> None, latlon |-> FALSE] }
    \cup {Failure(k) : k \in FailureKinds}

AqResponses ==
    { [kind |-> "ok", times |-> TRUE, pm25 |-> p, pm10 |-> q] :
          p \in {Num(0), Num(12346), Num(35204), JsonNull, Bad},
          q \in {Num(20006), Num(61000), JsonNull, Bad} }
    \cup { [kind |-> "ok", times |-> FALSE, pm25 |-> JsonNull, pm10 |-> JsonNull] }
    \cup {Failure(k) : k \in FailureKinds}

WxResponses ==
    { [kind |-> "ok", temperature |-> t] : t \in {Num(-512), Num(2146), JsonNull, Bad} }
    \cup {Failure(k) : k \in FailureKinds}

\* random.uniform draws, already rounded as the code rounds them: pm25 and
\* the PM10 factor in centi, temperature and noise in deci.
RtDraws ==
    [pm25 : {1500, 8000}, pm10_factor : {120, 180}, temperature : {225}, noise : {550, 850}]

InitRealtime ==
    /\ rt_in \in { <<[location |-> l, geo |-> g, aq |-> a, wx |-> w]>> :
                      l \in Locations, g \in GeoResponses,
                      a \in AqResponses, w \in WxResponses }
    /\ rt_out = <<>>
    /\ AqiIdle /\ CmpIdle /\ DbIdle /\ ViewIdle /\ WebIdle

GetRealtime ==
    /\ rt_in # <<>>
    /\ rt_out = <<>>
    /\ \E rnd \in RtDraws :
          rt_out' = <<get_realtime_open_meteo(rt_in[1].location, rt_in[1].geo,
                                              rt_in[1].aq, rt_in[1].wx, rnd)>>
    /\ UNCHANGED <<rt_in, aqiVars, cmpVars, dbVars, view, webVars>>

NextRealtime == GetRealtime

SpecRealtime == InitRealtime /\ [][NextRealtime]_vars

(***************************************************************************)
(* Specification SpecCmp: compute_comparison applied to pairs of values    *)
(***************************************************************************)
\* Simulated and real values in milli: numbers (negative temperatures and
\* zero included), None, and a value that is no number.
CmpValues ==
    {Num(v) : v \in {-5120, -20, 0, 4, 15, 10000, 20000, 30000, 30004, 30015, 35204}}
    \cup {PyNone, NotANumber}

InitCmp ==
    /\ cmp_in \in CmpValues \X CmpValues
    /\ cmp_out = <<>>
    /\ AqiIdle /\ RtIdle /\ DbIdle /\ ViewIdle /\ WebIdle

ComputeComparison ==
    /\ cmp_in # <<>>
    /\ cmp_out = <<>>
    /\ cmp_out' = <<compute_comparison(cmp_in[1], cmp_in[2])>>
    /\ UNCHANGED <<cmp_in, aqiVars, rtVars, dbVars, view, webVars>>

NextCmp == ComputeComparison

SpecCmp == InitCmp /\ [][NextCmp]_vars

(***************************************************************************)
(* Specification SpecDash: the dashboard over a populated store            *)
(***************************************************************************)
\* app/__init__.py 96-103: the zones every start-up ensures, in order.
SeedZones ==
    << [id |-> 1, name |-> "Kathmandu"], [id |-> 2, name |-> "Bhaktapur"],
       [id |-> 3, name |-> "Pokhara"],   [id |-> 4, name |-> "Gulmikot"],
       [id |-> 5, name |-> "Lalitpur"],  [id |-> 6, name |-> "Biratnagar"] >>

DashZones == 2

\* A stored row.  pm25 is centi; the other columns are filled as a reading
\* of that pm25 could be.
Row(zone_id, timestamp, pm25, temperature) ==
    [zone_id |-> zone_id, timestamp |-> timestamp, pm25 |-> pm25,
     pm10 |-> pm25 + 1000, noise_level |-> Num(700), temperature |-> temperature,
     aqi |-> calculate_aqi(pm25 * 10)]

DashPm25 == {0, 500, 1200, 3520, 4000, 4030, 4040, 8000}

\* The rows of the first zone: none, one, or two in either insertion order.
FirstZoneRows ==
    {<<>>}
    \cup { <<Row(1, 20, p, Num(215))>> : p \in DashPm25 }
    \cup { <<Row(1, 10, q, Num(215)), Row(1, 20, p, Num(215))>> : p \in DashPm25, q \in DashPm25 }
    \cup { <<Row(1, 20, p, Num(215)), Row(1, 10, q, Num(215))>> : p \in DashPm25, q \in DashPm25 }

\* The rows of every further zone: none or one.
OtherZoneRows(zone_id) ==
    {<<>>, <<Row(zone_id, 20, 0, Num(215))>>, <<Row(zone_id, 20, 1201, PyNone)>>,
     <<Row(zone_id, 20, 3520, Num(251))>>}

RECURSIVE StoresFrom(_)
StoresFrom(k) ==
    IF k > DashZones THEN {<<>>}
    ELSE { r \o rest : r \in (IF k = 1 THEN FirstZoneRows ELSE OtherZoneRows(k)),
                       rest \in StoresFrom(k + 1) }

\* The Zone table: the first seeded zones, or as many zones all named alike
\* (zone.py 13: the name is not unique, and manage_zones adds any name).
DashZoneTables ==
    { SubSeq(SeedZones, 1, DashZones),
      [j \in 1..DashZones |-> [id |-> j, name |-> "Kathmandu"]] }

InitDash ==
    /\ zones \in DashZoneTables
    /\ readings \in StoresFrom(1)
    /\ clock = 0
    /\ sim_call = <<>>
    /\ view = <<>>
    /\ AqiIdle /\ RtIdle /\ CmpIdle /\ WebIdle

\* config.py 30: the dashboard asks for Config.DEFAULT_CITY.
DEFAULT_CITY == [kind |-> "city", name |-> "Kathmandu"]

\* The responses the dashboard's call of get_realtime_open_meteo may meet.
DashGeo == { [kind |-> "ok", found |-> TRUE, name |-> "Kathmandu", latlon |-> TRUE],
             Failure("timeout") }

DashAq == { [kind |-> "ok", times |-> TRUE, pm25 |-> p, pm10 |-> Num(61000)] :
               p \in {Num(0), Num(35204), Num(40000)} }
          \cup {Failure("http_error")}

DashWx == { [kind |-> "ok", temperature |-> Num(2146)], Failure("timeout") }

DashDraws == [pm25 : {1500, 8000}, pm10_factor : {150}, temperature : {225}, noise : {700}]

\* GET /dashboard.
Dashboard ==
    /\ zones # <<>>
    /\ view = <<>>
    /\ \E g \in DashGeo, a \in DashAq, w \in DashWx, rnd \in DashDraws :
          view' = <<dashboard(zones, readings,
                              get_realtime_open_meteo(DEFAULT_CITY, g, a, w, rnd).result)>>
    /\ UNCHANGED <<dbVars, aqiVars, rtVars, cmpVars, webVars>>

NextDash == Dashboard

SpecDash == InitDash /\ [][NextDash]_vars

(***************************************************************************)
(* Specification SpecSim: one call of simulate_pollution_data              *)
(***************************************************************************)
MaxNumReadings == 2

\* The Zone table: a seeded zone and one an administrator added (its name
\* is not in ZONE_CHARACTERISTICS).
SimZones == << [id |-> 5, name |-> "Lalitpur"], [id |-> 7, name |-> "Thamel"] >>

\* The lists of zones a call may be handed.
SimZoneLists == { <<SimZones[1]>>, <<SimZones[2]>>, SimZones }

\* Start times (seconds since midnight of day 0, from day 1 on): midday,
\* the rush hour, just after 07:00 and 10:00, late evening, just after
\* midnight.
SimStarts == {86400 + 43200, 86400 + 28800, 86400 + 25500, 86400 + 36300,
              86400 + 84600, 2 * 86400 + 300}

\* What one iteration meets: the seconds elapsed since the previous clock
\* read and the four draws.
SimInputs ==
    { [elapsed |-> 0, pm25_noise |-> -5000, pm10_factor |-> 150, pm10_offset |-> -5000,
       noise_noise |-> -10000, temp_noise |-> -5000],
      [elapsed |-> 1, pm25_noise |-> -4994, pm10_factor |-> 150, pm10_offset |-> -5000,
       noise_noise |-> 0, temp_noise |-> 0],
      [elapsed |-> 1, pm25_noise |-> -10000, pm10_factor |-> 150, pm10_offset |-> -5000,
       noise_noise |-> -10000, temp_noise |-> 15000],
      [elapsed |-> 0, pm25_noise |-> 15000, pm10_factor |-> 200, pm10_offset |-> 10000,
       noise_noise |-> 10000, temp_noise |-> 15000],
      [elapsed |-> 1, pm25_noise |-> 5404, pm10_factor |-> 175, pm10_offset |-> 2500,
       noise_noise |-> 3300, temp_noise |-> 1234] }

InitSim ==
    /\ zones = SimZones
    /\ readings = <<>>
    /\ clock \in SimStarts
    /\ sim_call = <<>>
    /\ view = <<>>
    /\ AqiIdle /\ RtIdle /\ CmpIdle /\ WebIdle

\* simulate_pollution_data(zs, num_readings), committed.
Simulate ==
    /\ zones # <<>>
    /\ sim_call = <<>>
    /\ \E zs \in SimZoneLists, num_readings \in 1..MaxNumReadings :
          \E draws \in [1..(Len(zs) * num_readings) -> SimInputs] :
              /\ readings' = readings
                             \o SimulatedRows(zs, num_readings, clock, draws, 1)
              /\ clock' = ClockAt(clock, draws, Len(zs) * num_readings)
              /\ sim_call' = <<[zones |-> zs, num_readings |-> num_readings,
                                started |-> clock, rows_before |-> Len(readings)]>>
    /\ UNCHANGED <<zones, view, aqiVars, rtVars, cmpVars, webVars>>

NextSim == Simulate

SpecSim == InitSim /\ [][NextSim]_vars

(***************************************************************************)
(* Specification SpecHours: simulate_pollution_data for one zone, started  *)
(* five minutes into each hour of the day, so that the latest reading      *)
(* falls in that hour and the earlier ones in the hour before              *)
(***************************************************************************)
HourStarts == {86400 + hour * 3600 + 300 : hour \in 0..23}

InitHours ==
    /\ zones = SimZones
    /\ readings = <<>>
    /\ clock \in HourStarts
    /\ sim_call = <<>>
    /\ view = <<>>
    /\ AqiIdle /\ RtIdle /\ CmpIdle /\ WebIdle

\* simulate_pollution_data([zone], num_readings), committed; the draws met
\* are kept with the call.
SimulateZone ==
    /\ zones # <<>>
    /\ sim_call = <<>>
    /\ \E j \in 1..Len(zones), num_readings \in 1..MaxNumReadings :
          \E draws \in [1..num_readings -> SimInputs] :
              /\ readings' = readings
                             \o SimulatedRows(<<zones[j]>>, num_readings, clock, draws, 1)
              /\ clock' = ClockAt(clock, draws, num_readings)
              /\ sim_call' = <<[zones |-> <<zones[j]>>, num_readings |-> num_readings,
                                started |-> clock, rows_before |-> Len(readings),
                                draws |-> draws]>>
    /\ UNCHANGED <<zones, view, aqiVars, rtVars, cmpVars, webVars>>

NextHours == SimulateZone

SpecHours == InitHours /\ [][NextHours]_vars

(***************************************************************************)
(* Specification SpecAdmin: one client's requests to the login routes and  *)
(* the admin blueprint, over the Zone, PollutionReading and Settings       *)
(* tables                                                                  *)
(***************************************************************************)
MaxZoneId == 2

MaxReadings == 10

\* simulation.py 27: num_readings=5.
DefaultNumReadings == 5

\* The form of a request: the fields the handler reads.
Form(username, password, name, zone_id) ==
    [username |-> username, password |-> password, name |-> name, zone_id |-> zone_id]

NoForm == Form(None, None, None, 0)

\* A GET carries no form: request.form.get gives each field's default.

\* What is typed into the /login form and into the /admin/login form.
LoginNames == {"", "normal", "adminuser"}

AdminLoginNames == {" ", "admin", " admin ", "normal"}

LoginPasswords == {"", "pass", "admin123"}

ZoneNames == {" ", "Thamel"}

\* <<method, username, password, remember>> of a request to /login.
LoginRequests ==
    {<<"GET", "", "", FALSE>>}
    \cup ({"POST"} \X LoginNames \X LoginPasswords \X BOOLEAN)

\* <<method, username, password>> of a request to /admin/login.
AdminLoginRequests ==
    {<<"GET", "", "">>} \cup ({"POST"} \X AdminLoginNames \X LoginPasswords)

\* <<method, name, coords_ok>> of a request to /admin/zones.
ZoneRequests == {<<"GET", "", TRUE>>} \cup ({"POST"} \X ZoneNames \X BOOLEAN)

\* The zone ids a delete request may name: those in use and one beyond.
ZoneIdInputs == 1..(MaxZoneId + 1)

\* <<method, pm25_threshold, noise_threshold>> of a request to
\* /admin/settings, the thresholds in deci.
SettingsRequests ==
    { <<"GET", NotANumber, NotANumber>>,
      <<"POST", Num(350), Num(800)>>, <<"POST", NotANumber, Num(800)>>,
      <<"POST", Num(350), NotANumber>> }

\* The Zone table at the start: the first seeded zone.
AdminZones == << [id |-> 1, name |-> "Kathmandu"] >>

\* What every iteration of a simulation run from a route meets.
RouteSimInput ==
    [elapsed |-> 0, pm25_noise |-> 5404, pm10_factor |-> 175, pm10_offset |-> 2500,
     noise_noise |-> 3300, temp_noise |-> 1234]

\* app/__init__.py 68-93: the default settings row.
DefaultSettings == [pm25_threshold |-> Num(550), noise_threshold |-> Num(800)]

InitAdmin ==
    /\ zones = AdminZones
    /\ readings = <<>>
    /\ clock \in {86400 + 43200}
    /\ sim_call = <<>>
    /\ view = <<>>
    /\ session = EmptySession
    /\ remember_cookie = 0
    /\ settings = <<DefaultSettings>>
    /\ response = <<>>
    /\ AqiIdle /\ RtIdle /\ CmpIdle

\* auth/routes.py 68-97.
Login ==
    \E req \in LoginRequests :
        LET method == req[1]
            username == strip(req[2])
            password == req[3]
            remember == req[4]
            form == Form(username, password, None, 0)
            s0 == LoadUser(session, remember_cookie)
            u == UserByName(username)
        IN  /\ IF s0.user_id # 0
               THEN /\ session' = s0
                    /\ response' = <<Resp("login", 302, "dashboard.dashboard", FALSE, form)>>
                    /\ UNCHANGED remember_cookie
               ELSE IF method = "POST" /\ username # "" /\ password # "" /\ u # 0
                       /\ check_password_hash(Users[u], password)
               THEN /\ session' = ClearAdminFlag([s0 EXCEPT !.user_id = Users[u].id])
                    /\ remember_cookie' = IF remember THEN Users[u].id ELSE remember_cookie
                    /\ response' = <<Resp("login", 302, "dashboard.dashboard", TRUE, form)>>
               ELSE /\ session' = s0
                    /\ response' = <<Resp("login", 200, None, FALSE, form)>>
                    /\ UNCHANGED remember_cookie
            /\ UNCHANGED <<dbVars, settings, view, aqiVars, rtVars, cmpVars>>

\* auth/routes.py 100-107.
Logout ==
    LET s0 == LoadUser(session, remember_cookie)
    IN  /\ IF s0.user_id = 0
           THEN /\ session' = s0
                /\ response' = <<Resp("logout", 302, "auth.login", FALSE, NoForm)>>
                /\ UNCHANGED remember_cookie
           ELSE /\ session' = [s0 EXCEPT !.is_admin = "absent", !.user_id = 0]
                /\ remember_cookie' = 0
                /\ response' = <<Resp("logout", 302, "auth.login", TRUE, NoForm)>>
        /\ UNCHANGED <<dbVars, settings, view, aqiVars, rtVars, cmpVars>>

\* admin/routes.py 17-40.
AdminLogin ==
    \E req \in AdminLoginRequests :
        LET method == req[1]
            username == strip(req[2])
            password == req[3]
            form == Form(req[2], password, None, 0)
        IN  /\ IF Truthy(session.is_admin)
               THEN /\ response' = <<Resp("admin_login", 302, "admin.admin_dashboard",
                                          FALSE, form)>>
                    /\ UNCHANGED session
               ELSE IF method = "POST" /\ username # "" /\ password # ""
                       /\ username = ADMIN_USERNAME /\ password = ADMIN_PASSWORD
               THEN /\ session' = [EmptySession EXCEPT !.is_admin = "True",
                                                       !.admin_username = username]
                    /\ response' = <<Resp("admin_login", 302, "admin.admin_dashboard",
                                          TRUE, form)>>
               ELSE /\ response' = <<Resp("admin_login", 200, None, FALSE, form)>>
                    /\ UNCHANGED session
            /\ UNCHANGED <<remember_cookie, dbVars, settings, view, aqiVars, rtVars,
                           cmpVars>>

\* admin/routes.py 43-48.
AdminLogout ==
    /\ session' = EmptySession
    /\ response' = <<Resp("admin_logout", 302, "admin.admin_login", TRUE, NoForm)>>
    /\ UNCHANGED <<remember_cookie, dbVars, settings, view, aqiVars, rtVars, cmpVars>>

\* admin/routes.py 51-66.
AdminDashboard ==
    /\ response' = <<IF admin_required(session)
                     THEN Resp("admin_dashboard", 200, None, TRUE, NoForm)
                     ELSE ToAdminLogin("admin_dashboard", NoForm)>>
    /\ UNCHANGED <<session, remember_cookie, dbVars, settings, view, aqiVars, rtVars,
                   cmpVars>>

\* admin/routes.py 69-102.  coords_ok: float() accepts the latitude and
\* longitude fields; commit_ok: db.session.commit() does not raise.
ManageZones ==
    \E req \in ZoneRequests, commit_ok \in BOOLEAN :
        LET method == req[1]
            name == strip(req[2])
            coords_ok == req[3]
            form == Form(None, None, name, 0)
        IN  /\ NextZoneId(zones) <= MaxZoneId
            /\ IF ~admin_required(session)
               THEN /\ response' = <<ToAdminLogin("manage_zones", form)>>
                    /\ UNCHANGED zones
               ELSE IF method = "GET"
               THEN /\ response' = <<Resp("manage_zones", 200, None, TRUE, form)>>
                    /\ UNCHANGED zones
               ELSE /\ response' = <<Resp("manage_zones", 302, "admin.manage_zones",
                                          TRUE, form)>>
                    /\ zones' = IF name # "" /\ coords_ok /\ commit_ok
                                THEN Append(zones, [id |-> NextZoneId(zones),
                                                    name |-> name])
                                ELSE zones
            /\ UNCHANGED <<readings, clock, sim_call, session, remember_cookie,
                           settings, view, aqiVars, rtVars, cmpVars>>

\* admin/routes.py 105-121.  commit_ok: neither the two deletes nor the
\* commit raise; otherwise the transaction is rolled back.
DeleteZone ==
    \E zone_id \in ZoneIdInputs, commit_ok \in BOOLEAN :
        LET form == Form(None, None, None, zone_id)
        IN  /\ IF ~admin_required(session)
               THEN /\ response' = <<ToAdminLogin("delete_zone", form)>>
                    /\ UNCHANGED <<zones, readings>>
               ELSE IF ZoneById(zones, zone_id) = 0
               THEN /\ response' = <<Resp("delete_zone", 404, None, TRUE, form)>>
                    /\ UNCHANGED <<zones, readings>>
               ELSE /\ response' = <<Flashed(Resp("delete_zone", 302,
                                                  "admin.manage_zones", TRUE, form),
                                             IF commit_ok THEN "success" ELSE "danger")>>
                    /\ IF commit_ok
                       THEN /\ readings' = DeleteRows(readings, zone_id)
                            /\ zones' = DeleteZoneRow(zones, zone_id)
                       ELSE UNCHANGED <<zones, readings>>
            /\ UNCHANGED <<clock, sim_call, session, remember_cookie, settings, view,
                           aqiVars, rtVars, cmpVars>>

\* admin/routes.py 124-134: simulate_pollution_data(Zone.query.all()).
AdminSimulate ==
    \E commit_ok \in BOOLEAN :
        LET total == Len(zones) * DefaultNumReadings
            draws == [k \in 1..total |-> RouteSimInput]
        IN  /\ Len(readings) + total <= MaxReadings
            /\ IF ~admin_required(session)
               THEN /\ response' = <<ToAdminLogin("admin_simulate", NoForm)>>
                    /\ UNCHANGED <<readings, clock, sim_call>>
               ELSE /\ response' = <<Resp("admin_simulate", 302, "admin.admin_dashboard",
                                          TRUE, NoForm)>>
                    /\ IF commit_ok
                       THEN /\ readings' = readings \o SimulatedRows(zones,
                                                DefaultNumReadings, clock, draws, 1)
                            /\ sim_call' = <<[zones |-> zones,
                                              num_readings |-> DefaultNumReadings,
                                              started |-> clock,
                                              rows_before |-> Len(readings)]>>
                       ELSE UNCHANGED <<readings, sim_call>>
                    /\ clock' = ClockAt(clock, draws, total)
            /\ UNCHANGED <<zones, session, remember_cookie, settings, view, aqiVars,
                           rtVars, cmpVars>>

\* admin/routes.py 137-164.  The form's thresholds are parsed by float().
AdminSettings ==
    \E req \in SettingsRequests, commit_ok \in BOOLEAN :
        /\ IF ~admin_required(session)
           THEN /\ response' = <<ToAdminLogin("admin_settings", NoForm)>>
                /\ UNCHANGED settings
           ELSE LET row == IF settings = <<>> THEN DefaultSettings ELSE settings[1]
                IN  IF req[1] = "GET"
                    THEN /\ response' = <<Resp("admin_settings", 200, None, TRUE, NoForm)>>
                         /\ settings' = <<row>>
                    ELSE /\ response' = <<Resp("admin_settings", 302,
                                               "admin.admin_settings", TRUE, NoForm)>>
                         /\ settings' = IF req[2].kind = "num"
                                           /\ req[3].kind = "num" /\ commit_ok
                                        THEN <<[pm25_threshold |-> req[2],
                                                noise_threshold |-> req[3]]>>
                                        ELSE <<row>>
        /\ UNCHANGED <<dbVars, session, remember_cookie, view, aqiVars, rtVars, cmpVars>>

NextAdmin ==
    \/ Login
    \/ Logout
    \/ AdminLogin
    \/ AdminLogout
    \/ AdminDashboard
    \/ ManageZones
    \/ DeleteZone
    \/ AdminSimulate
    \/ AdminSettings

SpecAdmin == InitAdmin /\ [][NextAdmin]_vars

\* C1: calculate_aqi is monotonically non-decreasing on [0, 500.4]: for
\* arguments a <= b in that interval, at any resolution, the index returned
\* for a is at most the index returned for b.
C1_AqiMonotone ==
    (/\ aqi_out # <<>>
     /\ 0 <= aqi_in[1] /\ aqi_in[1] <= aqi_in[2] /\ aqi_in[2] <= 500400)
        => aqi_out[1].aqi <= aqi_out[2].aqi

\* C2: the seven ranges are contiguous and non-overlapping over [0, 500.4]:
\* every argument in the interval matches exactly one range and is returned
\* that range's interpolated index, and the capped value after the loop is
\* returned exactly when the argument exceeds 500.4.
C2_RangesPartition ==
    aqi_out # <<>> =>
        \A k \in 1..2 :
            /\ (0 <= aqi_in[k] /\ aqi_in[k] <= 500400) =>
                  /\ Cardinality(MatchingRanges(aqi_in[k])) = 1
                  /\ aqi_out[k].range # 0
                  /\ aqi_out[k].aqi = Interpolate(aqi_out[k].range, aqi_in[k])
            /\ (aqi_out[k].range = 0) <=> (aqi_in[k] > 500400)

\* The call under way and what it did.
RtCall == rt_in[1]

RtDone == rt_out # <<>>

Requested(endpoint) ==
    \E i \in 1..Len(rt_out[1].requests) : rt_out[1].requests[i] = endpoint

\* A request that was made and failed: non-200, timeout, exception, or a
\* body that cannot be read (as a whole, or a field float() rejects).
GeoFailed == Requested("geocoding") /\ RtCall.geo.kind \in FailureKinds

AqFailed ==
    /\ Requested("air_quality")
    /\ \/ RtCall.aq.kind \in FailureKinds
       \/ /\ RtCall.aq.kind = "ok"
          /\ RtCall.aq.times
          /\ (RtCall.aq.pm25.kind = "bad" \/ RtCall.aq.pm10.kind = "bad")

WxFailed ==
    /\ Requested("weather")
    /\ \/ RtCall.wx.kind \in FailureKinds
       \/ (RtCall.wx.kind = "ok" /\ RtCall.wx.temperature.kind = "bad")

IsFullFallback ==
    /\ ~rt_out[1].raised
    /\ rt_out[1].result.error = TRUE
    /\ rt_out[1].result.message # None
    /\ rt_out[1].result.source = SimulatedSources

\* C3 (as claimed): whenever any request made by one call fails (geocoding,
\* air-quality or weather: non-200, timeout, malformed payload, exception),
\* the result is the fully simulated fallback: error true, a message
\* attached, every source 'simulated'.
C3_AnyFailureFullFallback ==
    (RtDone /\ (GeoFailed \/ AqFailed \/ WxFailed)) => IsFullFallback

\* C3 (amended): a failed geocoding request gives the fully simulated
\* fallback (error true, message, every source 'simulated'); a failed
\* air-quality or weather request does not: the result has error false and
\* no message, and the fields that could not be parsed from the failed
\* response (pm10, and pm25 unless parsed before the failure; temperature)
\* are simulated.
C3_FailureDegrades ==
    RtDone =>
        /\ GeoFailed => IsFullFallback
        /\ (AqFailed \/ WxFailed) =>
              /\ ~rt_out[1].raised
              /\ rt_out[1].result.error = FALSE
              /\ rt_out[1].result.message = None
        /\ AqFailed =>
              /\ rt_out[1].result.source.pm10 = "simulated"
              /\ (RtCall.aq.kind \in FailureKinds \/ RtCall.aq.pm25.kind = "bad")
                    => rt_out[1].result.source.pm25 = "simulated"
        /\ WxFailed => rt_out[1].result.source.temperature = "simulated"

\* C3 witness: the geocoding request timed out and the fallback was returned.
C3_Witness ==
    /\ RtDone
    /\ GeoFailed
    /\ RtCall.geo.kind = "timeout"
    /\ IsFullFallback
    /\ rt_out[1].result.message = "Request timed out"

\* The value of a field as the API response carries it, rounded as the
\* code rounds it (2 decimals for concentrations, 1 for temperature).
AqCarries(field) ==
    /\ Requested("air_quality")
    /\ RtCall.aq.kind = "ok"
    /\ RtCall.aq.times
    /\ field.kind = "num"

\* C4: for every location and every combination of responses the call
\* returns without raising; pm25, pm10, temperature and noise are numbers;
\* every source is 'api' or 'simulated'; a source is 'api' exactly when the
\* returned value is the one parsed from the API response; noise is
\* 'simulated'.
C4_CompleteNumericResult ==
    RtDone =>
        /\ ~rt_out[1].raised
        /\ \A f \in {"pm25", "pm10", "temperature", "noise"} :
              /\ rt_out[1].result[f] \in Int
              /\ rt_out[1].result.source[f] \in {"api", "simulated"}
        /\ rt_out[1].result.source.noise = "simulated"
        /\ rt_out[1].result.noise \in {d.noise : d \in RtDraws}
        /\ (rt_out[1].result.source.pm25 = "api") <=>
              /\ AqCarries(RtCall.aq.pm25)
              /\ rt_out[1].pm25_api = Some(RtCall.aq.pm25.v)
              /\ rt_out[1].result.pm25 = RoundDiv(RtCall.aq.pm25.v, 10)
        /\ (rt_out[1].result.source.pm10 = "api") <=>
              /\ AqCarries(RtCall.aq.pm10)
              /\ rt_out[1].pm10_api = Some(RtCall.aq.pm10.v)
              /\ rt_out[1].result.pm10 = RoundDiv(RtCall.aq.pm10.v, 10)
        /\ (rt_out[1].result.source.temperature = "api") <=>
              /\ Requested("weather")
              /\ RtCall.wx.kind = "ok"
              /\ RtCall.wx.temperature.kind = "num"
              /\ rt_out[1].temperature_api = Some(RtCall.wx.temperature.v)
              /\ rt_out[1].result.temperature = RoundDiv(RtCall.wx.temperature.v, 10)
        /\ rt_out[1].result.source.pm25 = "simulated"
              => rt_out[1].result.pm25 \in {d.pm25 : d \in RtDraws}
        /\ rt_out[1].result.source.temperature = "simulated"
              => rt_out[1].result.temperature \in {d.temperature : d \in RtDraws}

\* C4 witness: mixed provenance in one result: pm25 from the API, pm10
\* derived from it, temperature drawn because the weather request failed.
C4_Witness ==
    /\ RtDone
    /\ ~rt_out[1].raised
    /\ rt_out[1].result.error = FALSE
    /\ rt_out[1].result.source.pm25 = "api"
    /\ rt_out[1].result.pm25 = 1235
    /\ rt_out[1].result.source.pm10 = "simulated"
    /\ rt_out[1].result.source.temperature = "simulated"
    /\ RtCall.wx.kind = "http_error"

\* The stored rows of a zone as the claims read them: the latest row has the
\* largest timestamp, the previous row has exactly one later row.
LatestRows(zone_id) ==
    {readings[i] : i \in {i \in RowsOf(readings, zone_id) :
        \A j \in RowsOf(readings, zone_id) :
            readings[j].timestamp <= readings[i].timestamp}}

PreviousRows(zone_id) ==
    {readings[i] : i \in {i \in RowsOf(readings, zone_id) :
        Cardinality({j \in RowsOf(readings, zone_id) :
            readings[j].timestamp > readings[i].timestamp}) = 1}}

ViewEntries == {view[1].zone_data[i] : i \in 1..Len(view[1].zone_data)}

\* C5: per zone, the label is 'No Data' with null change and pct exactly
\* when the zone has no previous reading; otherwise change = latest -
\* previous, pct is null exactly when previous pm25 = 0 (else change /
\* previous * 100 rounded to 2 decimals), the label is 'Stable' exactly when
\* pct is non-null and |pct| < 1, and otherwise 'Increasing' if change > 0
\* else 'Decreasing'.
C5_TrendRule ==
    view # <<>> =>
        \A z \in ViewEntries :
            /\ z.reading \in LatestRows(z.zone.id)
            /\ (z.trend = "No Data") <=> (PreviousRows(z.zone.id) = {})
            /\ PreviousRows(z.zone.id) = {} =>
                  z.pm25_change = Null /\ z.pm25_change_pct = Null
            /\ \A p \in PreviousRows(z.zone.id) :
                  /\ z.pm25_change = Some(z.reading.pm25 - p.pm25)
                  /\ (z.pm25_change_pct = Null) <=> (p.pm25 = 0)
                  /\ p.pm25 # 0 =>
                        z.pm25_change_pct =
                            Some(RoundDiv((z.reading.pm25 - p.pm25) * 10000, p.pm25))
                  /\ (z.trend = "Stable") <=>
                        (z.pm25_change_pct # Null /\ Abs(Val(z.pm25_change_pct)) < 100)
                  /\ z.trend # "Stable" =>
                        z.trend = IF z.reading.pm25 - p.pm25 > 0 THEN "Increasing"
                                  ELSE "Decreasing"

\* C5 witness: a zone whose previous pm25 is 0 and whose latest is not:
\* pct is null and the label follows the sign of the change.
C5_Witness ==
    /\ view # <<>>
    /\ \E z \in ViewEntries :
          /\ z.prev_reading # <<>>
          /\ z.prev_reading[1].pm25 = 0
          /\ z.reading.pm25 = 500
          /\ z.pm25_change_pct = Null
          /\ z.trend = "Increasing"

\* C6: compute_comparison never raises; it returns (None, None, 'No Data')
\* when real is null or either value is no number; otherwise abs_diff =
\* round(|sim - real|, 2), pct_diff is null exactly when real = 0 and else
\* round(abs_diff / real * 100, 2), and status is 'Above' if sim > real,
\* 'Below' if sim < real, else 'Equal'.
C6_ComparisonTotal ==
    cmp_out # <<>> =>
        /\ ~cmp_out[1].raised
        /\ (cmp_in[1].kind # "num" \/ cmp_in[2].kind # "num") =>
              /\ cmp_out[1].abs_diff = Null
              /\ cmp_out[1].pct_diff = Null
              /\ cmp_out[1].status = "No Data"
        /\ (cmp_in[1].kind = "num" /\ cmp_in[2].kind = "num") =>
              /\ cmp_out[1].abs_diff = Some(RoundDiv(Abs(cmp_in[1].v - cmp_in[2].v), 10))
              /\ (cmp_out[1].pct_diff = Null) <=> (cmp_in[2].v = 0)
              /\ cmp_in[2].v # 0 =>
                    cmp_out[1].pct_diff =
                        Some(RoundDiv(Val(cmp_out[1].abs_diff) * 100000, cmp_in[2].v))
              /\ cmp_out[1].status =
                    IF cmp_in[1].v > cmp_in[2].v THEN "Above"
                    ELSE IF cmp_in[1].v < cmp_in[2].v THEN "Below"
                    ELSE "Equal"

\* C6 witness: a null simulated value against a numeric real value was
\* compared and gave 'No Data' without raising.
C6_Witness ==
    /\ cmp_out # <<>>
    /\ cmp_in[1] = PyNone
    /\ cmp_in[2] = Num(20000)
    /\ ~cmp_out[1].raised
    /\ cmp_out[1].status = "No Data"

\* C7: for every numeric real PM2.5 (0 included) and every cross-zone
\* average of simulated PM2.5, comparison_status is 'equal' only when the
\* average differs from the real value by less than 1% of the real value,
\* and otherwise 'above' when the average is greater and 'below' when less.
\* (An average of simulated PM2.5 is at least 5, the generator's floor.)
C7_AggregateComparisonBand ==
    (view # <<>> /\ view[1].stats # <<>> /\ view[1].stats[1].avg_sim_pm25 >= 500) =>
        LET st   == view[1].stats[1]
            near == Abs(st.avg_sim_pm25 - st.real_pm25) * 100 < Abs(st.real_pm25)
        IN  /\ st.comparison_status = "equal" => near
            /\ (~near /\ st.avg_sim_pm25 > st.real_pm25) => st.comparison_status = "above"
            /\ (~near /\ st.avg_sim_pm25 < st.real_pm25) => st.comparison_status = "below"

\* The zones with data whose latest pm25 exceeds 35.0.
ZonesAbove35 ==
    {zones[k].id : k \in {k \in 1..Len(zones) :
        \E r \in LatestRows(zones[k].id) : r.pm25 > 3500}}

\* C8: the alert list is exactly the zones with data whose latest pm25 is
\* > 35.0 (three buckets: <= 12.0 Good, <= 35.0 Moderate, else Unhealthy),
\* whatever the six-bucket status: a zone with latest pm25 in (35.0, 35.4]
\* is alerted while its status level is 'Moderate'.
C8_AlertsAreAbove35 ==
    view # <<>> =>
        /\ {view[1].alerts[i].zone.id : i \in 1..Len(view[1].alerts)} = ZonesAbove35
        /\ Len(view[1].alerts) = Cardinality(ZonesAbove35)
        /\ \A z \in ViewEntries :
              /\ (z.epa_category = "Good") <=> (z.reading.pm25 <= 1200)
              /\ (z.epa_category = "Unhealthy") <=> (z.reading.pm25 > 3500)
              /\ (z.reading.pm25 > 3500 /\ z.reading.pm25 <= 3540) =>
                    /\ \E i \in 1..Len(view[1].alerts) : view[1].alerts[i] = z
                    /\ z.status = "Moderate"

\* C8 witness: a zone at 35.2 is in the alert list with status 'Moderate'.
C8_Witness ==
    /\ view # <<>>
    /\ \E i \in 1..Len(view[1].alerts) :
          /\ view[1].alerts[i].reading.pm25 = 3520
          /\ view[1].alerts[i].status = "Moderate"
          /\ view[1].alerts[i].epa_category = "Unhealthy"

\* A call of simulate_pollution_data has returned.
SimDone == sim_call # <<>>

\* The rows the call added, in insertion order.
Inserted == SubSeq(readings, sim_call[1].rows_before + 1, Len(readings))

\* C9 as stated: every reading simulate_pollution_data inserts has a stored
\* PM10 strictly greater than its stored PM2.5, for every zone and every
\* draw of the random terms.
C9_Pm10StrictlyAbovePm25 ==
    SimDone => \A k \in 1..Len(Inserted) : Inserted[k].pm10 > Inserted[k].pm25

\* C9, amended: every inserted reading has a stored PM10 greater than or
\* equal to its stored PM2.5, and strictly greater unless the stored PM2.5
\* lies between 10.00 and 10.02.
C9_Pm10AtLeastPm25 ==
    SimDone => \A k \in 1..Len(Inserted) :
        /\ Inserted[k].pm10 >= Inserted[k].pm25
        /\ (Inserted[k].pm25 < 1000 \/ Inserted[k].pm25 > 1002)
               => Inserted[k].pm10 > Inserted[k].pm25

\* C9 witness: one call inserted a reading whose PM10 equals its PM2.5
\* (10.01 both), one held up by the PM10 floor and one well above it.
C9_Witness ==
    /\ SimDone
    /\ \E k \in 1..Len(Inserted) :
          Inserted[k].pm25 = 1001 /\ Inserted[k].pm10 = 1001
    /\ \E k \in 1..Len(Inserted) :
          Inserted[k].pm25 = 500 /\ Inserted[k].pm10 = 1000
    /\ \E k \in 1..Len(Inserted) :
          Inserted[k].pm25 > 1002 /\ Inserted[k].pm10 > Inserted[k].pm25

\* The timestamps the call inserted for one zone, in insertion order.
InsertedTimestamps(zone_id) ==
    LET idx == {k \in 1..Len(Inserted) : Inserted[k].zone_id = zone_id}
        RECURSIVE Collect(_)
        Collect(k) == IF k > Len(Inserted) THEN <<>>
                      ELSE (IF k \in idx THEN <<Inserted[k].timestamp>> ELSE <<>>)
                           \o Collect(k + 1)
    IN  Collect(1)

\* The ids of the zones the call was handed.
CalledZoneIds == {sim_call[1].zones[j].id : j \in 1..Len(sim_call[1].zones)}

\* The call inserted num_readings rows for each zone it was handed and none
\* for any other zone.
SimCountsPerZone ==
    SimDone => \A j \in 1..Len(zones) :
        Len(InsertedTimestamps(zones[j].id)) =
            IF zones[j].id \in CalledZoneIds THEN sim_call[1].num_readings ELSE 0

\* Each zone's inserted timestamps strictly increase, and the last one is
\* a clock value read during the call.
SimTimestampsIncrease ==
    SimDone => \A id \in CalledZoneIds :
        LET ts == InsertedTimestamps(id)
        IN  /\ \A k \in 1..(Len(ts) - 1) : ts[k] < ts[k + 1]
            /\ Len(ts) > 0 => (sim_call[1].started <= ts[Len(ts)]
                               /\ ts[Len(ts)] <= clock)

\* Consecutive timestamps of a zone are exactly 10 minutes apart.
SimSpacingExact ==
    SimDone => \A id \in CalledZoneIds :
        LET ts == InsertedTimestamps(id)
        IN  \A k \in 1..(Len(ts) - 1) : ts[k + 1] - ts[k] = TenMinutes

\* C10: one call simulate_pollution_data(zones, n) inserts exactly n
\* readings for each zone handed to it and none for other zones; each
\* zone's readings carry strictly increasing timestamps, consecutive ones
\* 10 minutes apart, the last one being the generation time.
C10_ReadingsPerZoneTenMinutesApart ==
    /\ SimCountsPerZone
    /\ SimTimestampsIncrease
    /\ SimSpacingExact

\* C11: every reading simulate_pollution_data inserts, for a zone of known
\* or unknown name, any hour and any draws, has stored pm25 >= 5,
\* pm10 >= 10 and 40 <= noise_level <= 100.
C11_StoredBounds ==
    SimDone => \A k \in 1..Len(Inserted) :
        /\ Inserted[k].pm25 >= 500
        /\ Inserted[k].pm10 >= 1000
        /\ Inserted[k].noise_level.kind = "num"
        /\ 400 <= Inserted[k].noise_level.v /\ Inserted[k].noise_level.v <= 1000

\* C11 witness: one call inserted a reading held at all three floors
\* (pm25 5.0, pm10 10.0, noise 40.0) for the known zone and a reading above
\* them for the zone of unknown name.
C11_Witness ==
    /\ SimDone
    /\ \E k \in 1..Len(Inserted) :
          /\ Inserted[k].zone_id = 5
          /\ Inserted[k].pm25 = 500 /\ Inserted[k].pm10 = 1000
          /\ Inserted[k].noise_level = Num(400)
    /\ \E k \in 1..Len(Inserted) :
          /\ Inserted[k].zone_id = 7
          /\ Inserted[k].pm25 > 500 /\ Inserted[k].pm10 > 1000
          /\ Inserted[k].noise_level.v > 400

\* Every stored reading's zone_id is the id of a stored zone.
ReadingsReferToZones ==
    \A k \in 1..Len(readings) : \E j \in 1..Len(zones) : zones[j].id = readings[k].zone_id

\* The step just taken served handler h.
Served(h) == response' # <<>> /\ response'[1].handler = h

\* A delete_zone step: a successful one removes exactly the named zone and
\* the readings of that zone; any other one changes neither table.
DeleteZoneStep ==
    Served("delete_zone") =>
        LET id == response'[1].form.zone_id
        IN  IF response'[1].flash = "success"
            THEN /\ zones' = SelectSeq(zones, LAMBDA z : z.id # id)
                 /\ readings' = SelectSeq(readings, LAMBDA r : r.zone_id # id)
                 /\ \A j \in 1..Len(zones') : zones'[j].id # id
                 /\ \A k \in 1..Len(readings') : readings'[k].zone_id # id
            ELSE zones' = zones /\ readings' = readings

\* C12: after any sequence of zone creation, simulation and zone deletion
\* every stored reading's zone_id refers to an existing zone; a successful
\* delete_zone removes the zone with all of its readings and leaves every
\* other zone and its readings unchanged, and one that fails is rolled
\* back, leaving the zone and all its readings in place.
C12_DeleteCascades == []ReadingsReferToZones /\ [][DeleteZoneStep]_vars

\* C12 witness: after a simulation over two zones one of them was deleted
\* successfully; the other zone and its readings are still stored.
C12_Witness ==
    /\ response # <<>> /\ response[1].handler = "delete_zone"
    /\ response[1].flash = "success"
    /\ sim_call # <<>> /\ Len(sim_call[1].zones) = 2
    /\ \E j \in 1..2 : sim_call[1].zones[j].id = response[1].form.zone_id
    /\ Len(zones) = 1
    /\ Len(readings) = DefaultNumReadings

\* The handlers wrapped by admin_required.
AdminGated ==
    {"admin_dashboard", "manage_zones", "delete_zone", "admin_simulate", "admin_settings"}

\* is_admin becomes truthy only in an /admin/login POST whose username (as
\* the handler reads it, stripped) and password are the configured ones.
AdminFlagSetStep ==
    (~Truthy(session.is_admin) /\ Truthy(session'.is_admin)) =>
        /\ Served("admin_login") /\ response'[1].ran
        /\ strip(response'[1].form.username) = ADMIN_USERNAME
        /\ response'[1].form.password = ADMIN_PASSWORD

\* A gated handler runs its body exactly when is_admin is truthy; otherwise
\* it redirects to the admin login and changes no table.
AdminGateStep ==
    \A h \in AdminGated : Served(h) =>
        IF Truthy(session.is_admin)
        THEN response'[1].ran /\ response'[1].location # "admin.admin_login"
        ELSE /\ ~response'[1].ran
             /\ response'[1].status = 302
             /\ response'[1].location = "admin.admin_login"
             /\ zones' = zones /\ readings' = readings /\ settings' = settings

LoginSucceeded ==
    response # <<>> /\ response[1].handler = "login" /\ response[1].ran

\* Right after a successful login a request to a gated route is redirected
\* to the admin login.
GatedAfterLoginStep ==
    \A h \in AdminGated : (LoginSucceeded /\ Served(h)) =>
        /\ response'[1].status = 302
        /\ response'[1].location = "admin.admin_login"

AdminDashboardServed == response # <<>> /\ response[1].handler = "admin_dashboard"

\* The User row of the user the session is logged in as.
SessionUser == Users[CHOOSE i \in 1..Len(Users) : Users[i].id = session.user_id]

\* C15: a request to /admin/dashboard by a logged-in regular user (a User
\* whose is_admin is false, logged in through /login) is answered with
\* status 403, and the same request from a client with no login with a
\* redirect (301 or 302).
C15_RegularUserGets403 ==
    (AdminDashboardServed /\ ~Truthy(session.is_admin)) =>
        /\ (session.user_id # 0 /\ ~SessionUser.is_admin) => response[1].status = 403
        /\ (session.user_id = 0 /\ remember_cookie = 0) =>
               response[1].status \in {301, 302}

\* C16: a user whose User.is_admin column is true, logged in through the
\* regular /login form with their own password after any previous user
\* logged out, opens /admin/dashboard and receives status 200.
C16_AdminColumnUserGets200 ==
    (AdminDashboardServed /\ session.user_id # 0 /\ SessionUser.is_admin) =>
        response[1].status = 200

\* The six levels in order of severity.
Severity(level) ==
    CASE level = "Good" -> 1
      [] level = "Moderate" -> 2
      [] level = "Unhealthy for Sensitive Groups" -> 3
      [] level = "Unhealthy" -> 4
      [] level = "Very Unhealthy" -> 5
      [] level = "Hazardous" -> 6
      [] OTHER -> 0

\* The level the fixed thresholds assign (v in milli).
LevelByThreshold(v) ==
    LET passed == Cardinality({t \in {12000, 35400, 55400, 150400, 250400} : v > t})
    IN  <<"Good", "Moderate", "Unhealthy for Sensitive Groups", "Unhealthy",
          "Very Unhealthy", "Hazardous">>[passed + 1]

\* C17: calculate_aqi_status is total over numeric PM2.5 and assigns exactly
\* one of six levels by the fixed thresholds (<= 12.0 Good, <= 35.4 Moderate,
\* <= 55.4 Unhealthy for Sensitive Groups, <= 150.4 Unhealthy, <= 250.4 Very
\* Unhealthy, otherwise Hazardous; so 12.0 is Good, 12.1 Moderate, 55.5
\* Unhealthy, 1000 Hazardous), and the severity of the level never decreases
\* as pm25 increases.
C17_SixLevels ==
    aqi_out # <<>> =>
        /\ \A k \in 1..2 :
              /\ Severity(aqi_out[k].status) \in 1..6
              /\ aqi_out[k].status = LevelByThreshold(aqi_in[k])
              /\ aqi_in[k] = 12000 => aqi_out[k].status = "Good"
              /\ aqi_in[k] = 12100 => aqi_out[k].status = "Moderate"
              /\ aqi_in[k] = 55500 => aqi_out[k].status = "Unhealthy"
              /\ aqi_in[k] = 1000000 => aqi_out[k].status = "Hazardous"
        /\ aqi_in[1] <= aqi_in[2] =>
              Severity(aqi_out[1].status) <= Severity(aqi_out[2].status)

\* C17 witness: the calls for 12.0 and 12.1 returned Good and Moderate.
C17_Witness ==
    /\ aqi_out # <<>>
    /\ aqi_in = <<12000, 12100>>
    /\ aqi_out[1].status = "Good" /\ aqi_out[2].status = "Moderate"

\* n is num / den rounded to the nearest whole number, a tie to the even one.
IsRounding(n, num, den) ==
    /\ 2 * Abs(n * den - num) <= den
    /\ 2 * Abs(n * den - num) = den => n % 2 = 0

\* C18: for a PM2.5 value v inside a breakpoint range [lo, hi] mapped to
\* [ilo, ihi], calculate_aqi(v) equals
\* round(ilo + (ihi - ilo) / (hi - lo) * (v - lo)) and lies in [ilo, ihi];
\* at the range's lower bound it is ilo and at its upper bound ihi
\* (12.0 -> 50, 12.1 -> 51, 500.4 -> 500).
C18_Interpolation ==
    aqi_out # <<>> =>
        \A k \in 1..2 : \A i \in MatchingRanges(aqi_in[k]) :
            LET bp == breakpoints[i]
                v == aqi_in[k]
            IN  /\ IsRounding(aqi_out[k].aqi,
                              bp[3] * (bp[2] - bp[1]) + (bp[4] - bp[3]) * (v - bp[1]),
                              bp[2] - bp[1])
                /\ bp[3] <= aqi_out[k].aqi /\ aqi_out[k].aqi <= bp[4]
                /\ v = bp[1] => aqi_out[k].aqi = bp[3]
                /\ v = bp[2] => aqi_out[k].aqi = bp[4]
                /\ v = 12000 => aqi_out[k].aqi = 50
                /\ v = 12100 => aqi_out[k].aqi = 51
                /\ v = 500400 => aqi_out[k].aqi = 500

\* C18 witness: the calls for 35.3 (inside the second range) and 500.4 (the
\* last upper bound) returned 100 and 500.
C18_Witness ==
    /\ aqi_out # <<>>
    /\ aqi_in = <<35300, 500400>>
    /\ aqi_out[1].range = 2 /\ aqi_out[1].aqi = 100
    /\ aqi_out[2].range = 7 /\ aqi_out[2].aqi = 500

\* The indices (in zone order) of the zones that have at least one reading.
ZonesWithData == {k \in 1..Len(zones) : RowsOf(readings, zones[k].id) # {}}

\* The latest stored reading of the k-th zone.
LatestOf(k) == CHOOSE r \in LatestRows(zones[k].id) : TRUE

\* The sums of the latest pm25 and pm10 over the zones with data.
LatestPm25Total ==
    SumSeq([k \in 1..Len(zones) |-> IF k \in ZonesWithData THEN LatestOf(k).pm25 ELSE 0])

LatestPm10Total ==
    SumSeq([k \in 1..Len(zones) |-> IF k \in ZonesWithData THEN LatestOf(k).pm10 ELSE 0])

\* n is num / den to the nearest whole number (either one at a tie).
IsNearest(n, num, den) == 2 * Abs(n * den - num) <= den

\* C19: avg_pm25 and avg_pm10 are the mean (kept to two decimals) of the
\* latest reading's value over exactly the zones that have at least one
\* reading; zones without readings add to neither sum nor count.  When no
\* zone has a reading both averages are 0 and the dashboard's highest and
\* lowest zone are null; the view is produced all the same.
C19_AveragesOverZonesWithData ==
    view # <<>> =>
        LET n == Cardinality(ZonesWithData)
        IN  /\ Len(view[1].zone_data) = n
            /\ n = 0 => /\ view[1].avg_pm25 = 0 /\ view[1].avg_pm10 = 0
                        /\ view[1].highest_zone = <<>> /\ view[1].lowest_zone = <<>>
            /\ n > 0 => /\ IsNearest(view[1].avg_pm25, LatestPm25Total, n)
                        /\ IsNearest(view[1].avg_pm10, LatestPm10Total, n)
                        /\ view[1].highest_zone # <<>> /\ view[1].lowest_zone # <<>>

\* C19 witness: the first zone has no reading and a later one has; the
\* averages are that zone's latest values.
C19_Witness ==
    /\ view # <<>>
    /\ 1 \notin ZonesWithData
    /\ \E k \in ZonesWithData :
          /\ LatestOf(k).pm25 = 3520
          /\ view[1].avg_pm25 = 3520 /\ view[1].avg_pm10 = 4520

\* The position in the view's zone_data of an entry.
PositionOf(entry) ==
    CHOOSE i \in 1..Len(view[1].zone_data) : view[1].zone_data[i].zone.id = entry.zone.id

\* C20: the highest zone is a zone with data whose latest pm25 is maximal,
\* the lowest one whose latest pm25 is minimal; among several zones at the
\* extreme value the first in zone order is chosen, for both.
C20_FirstExtremeZone ==
    (view # <<>> /\ view[1].zone_data # <<>>) =>
        LET zd == view[1].zone_data
            h == view[1].highest_zone[1]
            l == view[1].lowest_zone[1]
        IN  /\ \E i \in 1..Len(zd) : zd[i] = h
            /\ \E i \in 1..Len(zd) : zd[i] = l
            /\ \E k \in ZonesWithData : zones[k].id = h.zone.id
                                         /\ LatestOf(k).pm25 = h.reading.pm25
            /\ \E k \in ZonesWithData : zones[k].id = l.zone.id
                                         /\ LatestOf(k).pm25 = l.reading.pm25
            /\ \A i \in 1..Len(zd) :
                  /\ zd[i].reading.pm25 <= h.reading.pm25
                  /\ zd[i].reading.pm25 >= l.reading.pm25
                  /\ i < PositionOf(h) => zd[i].reading.pm25 < h.reading.pm25
                  /\ i < PositionOf(l) => zd[i].reading.pm25 > l.reading.pm25
            /\ \A i, j \in 1..Len(zd) :
                  i < j => \E a, b \in ZonesWithData :
                              a < b /\ zones[a].id = zd[i].zone.id
                                    /\ zones[b].id = zd[j].zone.id

\* C20 witness: two zones with the same latest pm25; the first is both the
\* highest and the lowest zone.
C20_Witness ==
    /\ view # <<>>
    /\ Len(view[1].zone_data) >= 2
    /\ view[1].zone_data[1].reading.pm25 = view[1].zone_data[2].reading.pm25
    /\ view[1].highest_zone = <<view[1].zone_data[1]>>
    /\ view[1].lowest_zone = <<view[1].zone_data[1]>>

\* The tallies of a stats dictionary are complete and count the view's
\* entries by label.
TalliesComplete(st, zd) ==
    /\ DOMAIN st.epa_counts = {"Good", "Moderate", "Unhealthy"}
    /\ DOMAIN st.trend_counts = {"Increasing", "Decreasing", "Stable", "No Data"}
    /\ \A l \in DOMAIN st.epa_counts :
          st.epa_counts[l] = Cardinality({i \in 1..Len(zd) : zd[i].epa_category = l})
    /\ \A l \in DOMAIN st.trend_counts :
          st.trend_counts[l] = Cardinality({i \in 1..Len(zd) : zd[i].trend = l})
    /\ st.epa_counts["Good"] + st.epa_counts["Moderate"] + st.epa_counts["Unhealthy"]
          = Len(zd)
    /\ st.trend_counts["Increasing"] + st.trend_counts["Decreasing"]
          + st.trend_counts["Stable"] + st.trend_counts["No Data"] = Len(zd)

\* The tallies are complete whenever some zone has a reading.
TalliesCompleteWithData ==
    (view # <<>> /\ view[1].zone_data # <<>>) =>
        /\ view[1].stats # <<>>
        /\ TalliesComplete(view[1].stats[1], view[1].zone_data)

\* C21: for every set of zones, one in which no zone has a reading included,
\* the stats handed to the dashboard view hold an EPA tally with exactly the
\* keys Good, Moderate, Unhealthy and a trend tally with exactly the keys
\* Increasing, Decreasing, Stable, No Data; each count is the number of
\* zones with data carrying that label and both tallies sum to the number
\* of zones with data.
C21_TalliesAlwaysComplete ==
    view # <<>> =>
        /\ Len(view[1].zone_data) = Cardinality(ZonesWithData)
        /\ view[1].stats # <<>>
        /\ TalliesComplete(view[1].stats[1], view[1].zone_data)

\* The requests of the call are a subsequence of geocoding, air quality,
\* weather: each endpoint at most once, in that order.
RequestRank(endpoint) ==
    CASE endpoint = "geocoding" -> 1
      [] endpoint = "air_quality" -> 2
      [] endpoint = "weather" -> 3

RequestsOnceInOrder ==
    LET reqs == rt_out[1].requests
    IN  /\ \A i \in 1..Len(reqs) : reqs[i] \in {"geocoding", "air_quality", "weather"}
        /\ \A i, j \in 1..Len(reqs) :
              i < j => RequestRank(reqs[i]) < RequestRank(reqs[j])

\* The geocoding request was made and found no city.
GeoFoundNoCity ==
    Requested("geocoding") /\ RtCall.geo.kind = "ok" /\ ~RtCall.geo.found

\* C22: within one call each endpoint (geocoding, air quality, weather) is
\* requested at most once and in that order, so no request is repeated
\* after a failure; when the geocoding request fails or finds no city the
\* simulated fallback is returned and neither the air-quality nor the
\* weather endpoint is requested.
C22_RequestsOnceNoRetry ==
    RtDone =>
        /\ RequestsOnceInOrder
        /\ (GeoFailed \/ GeoFoundNoCity) =>
              /\ IsFullFallback
              /\ rt_out[1].requests = <<"geocoding">>

\* A call whose geocoding request failed, and one where all three
\* endpoints were requested although the later ones failed.
C22_Witness ==
    /\ RtDone
    /\ GeoFailed
    /\ rt_out[1].requests = <<"geocoding">>
    /\ IsFullFallback

C22_WitnessAllThree ==
    /\ RtDone
    /\ AqFailed /\ WxFailed
    /\ rt_out[1].requests = <<"geocoding", "air_quality", "weather">>

\* The temperature and the noise level classified, and the levels returned.
TemperatureDone == status_in # <<>> /\ status_out.temperature # <<>>

NoiseDone == status_in # <<>> /\ status_out.noise # <<>>

\* C23: get_temperature_status returns a level for every input: 'No Data'
\* for None and for a value float() rejects, 'Cool' for a value <= 15.0,
\* 'Normal' for a value in (15.0, 25.0], 'Hot' for a value > 25.0.
C23_TemperatureLevels ==
    TemperatureDone =>
        LET t == status_in[1]
            level == status_out.temperature[1]
        IN  /\ level \in {"No Data", "Cool", "Normal", "Hot"}
            /\ t.kind \in {"null", "bad"} => level = "No Data"
            /\ (t.kind = "num" /\ t.v <= 150) => level = "Cool"
            /\ (t.kind = "num" /\ 150 < t.v /\ t.v <= 250) => level = "Normal"
            /\ (t.kind = "num" /\ t.v > 250) => level = "Hot"

\* 15.0 classified Cool.
C23_Witness ==
    /\ TemperatureDone
    /\ status_in[1] = Num(150)
    /\ status_out.temperature[1] = "Cool"

\* C24: get_noise_status returns a level for every input: 'No Data' for
\* None and for a value float() rejects, 'Low' for a value < 60.0,
\* 'Moderate' for a value in [60.0, 75.0], 'High' for a value > 75.0.
C24_NoiseLevels ==
    NoiseDone =>
        LET n == status_in[2]
            level == status_out.noise[1]
        IN  /\ level \in {"No Data", "Low", "Moderate", "High"}
            /\ n.kind \in {"null", "bad"} => level = "No Data"
            /\ (n.kind = "num" /\ n.v < 600) => level = "Low"
            /\ (n.kind = "num" /\ 600 <= n.v /\ n.v <= 750) => level = "Moderate"
            /\ (n.kind = "num" /\ n.v > 750) => level = "High"

\* 60.0 classified Moderate.
C24_Witness ==
    /\ NoiseDone
    /\ status_in[2] = Num(600)
    /\ status_out.noise[1] = "Moderate"

\* The hours of the day as the claim groups them, and the factor (in
\* tenths) it gives each group.
RushHours == {7, 8, 9, 17, 18, 19}

NightHours == {22, 23, 0, 1, 2, 3, 4, 5}

ClaimedFactor(hour) ==
    IF hour \in RushHours THEN 13
    ELSE IF hour \in NightHours THEN 7
    ELSE 10

\* The PM2.5 (centi) a reading stores when the given factor is applied to
\* the zone's baseline and the draw is added.
StoredPm25With(zone, factor, d) ==
    RoundDiv(Max(5000, ZONE_CHARACTERISTICS(zone.name).pm25_base * factor * 100
                       + d.pm25_noise), 10)

\* C25: for each generated reading the factor applied to the zone's PM2.5
\* baseline is 1.3 when the hour of the reading's own timestamp is in
\* {7,8,9,17,18,19}, 0.7 when it is in {22,23,0,..,5} and 1.0 otherwise;
\* the groups are disjoint, so every hour 0..23 gets exactly one factor.
C25_DiurnalFactor ==
    /\ RushHours \cap NightHours = {}
    /\ \A hour \in 0..23 : TimeFactor(hour) = ClaimedFactor(hour)
    /\ SimDone =>
          \A k \in 1..Len(Inserted) :
              Inserted[k].pm25 =
                  StoredPm25With(sim_call[1].zones[1],
                                 ClaimedFactor(HourOf(Inserted[k].timestamp)),
                                 sim_call[1].draws[k])

\* A call started at 07:05 with two readings: the earlier one, stamped
\* 06:55, got the factor 1.0 and the later one 1.3.
C25_Witness ==
    /\ SimDone
    /\ Len(Inserted) = 2
    /\ HourOf(Inserted[1].timestamp) = 6
    /\ HourOf(Inserted[2].timestamp) = 7
    /\ Inserted[1].pm25 = StoredPm25With(sim_call[1].zones[1], 10, sim_call[1].draws[1])
    /\ Inserted[2].pm25 = StoredPm25With(sim_call[1].zones[1], 13, sim_call[1].draws[2])
    /\ Inserted[1].pm25 # StoredPm25With(sim_call[1].zones[1], 13, sim_call[1].draws[1])

\* C26: no reachable state of the client has both an authenticated regular
\* user (Flask-Login's current_user, from the session or the remember
\* cookie) and a truthy session['is_admin'], over every interleaving of
\* user login, user logout, admin login and admin logout.
C26_NeverUserAndAdmin ==
    ~ /\ CurrentUserId(session, remember_cookie) # 0
      /\ ~Users[CurrentUserId(session, remember_cookie)].is_admin
      /\ Truthy(session.is_admin)

\* C27: every reading simulate_pollution_data inserts stores an aqi equal
\* to calculate_aqi applied to the reading's stored pm25 (rounded to two
\* decimals), for every pm25 the generator can produce.
C27_AqiOfStoredPm25 ==
    SimDone =>
        \A k \in 1..Len(Inserted) :
            Inserted[k].aqi = calculate_aqi(Inserted[k].pm25 * 10)

EqualIsStableUnlessZero ==
    view # <<>> =>
        \A z \in ViewEntries :
            \A p \in PreviousRows(z.zone.id) :
                p.pm25 # 0 =>
                    /\ z.reading.pm25 = p.pm25 => z.trend = "Stable"
                    /\ z.trend = "Decreasing" => z.reading.pm25 < p.pm25
                    /\ z.trend = "Increasing" => z.reading.pm25 > p.pm25

\* C29: the highest_idx and lowest_idx handed to the dashboard view are
\* the positions in zone_data of the very entries chosen as highest_zone
\* and lowest_zone, for every Zone table an administrator can create (zone
\* names need not be unique).
C29_IndexOfChosenEntry ==
    (view # <<>> /\ view[1].zone_data # <<>>) =>
        /\ view[1].highest_idx # Null
        /\ view[1].lowest_idx # Null
        /\ view[1].zone_data[Val(view[1].highest_idx)].zone.id
               = view[1].highest_zone[1].zone.id
        /\ view[1].zone_data[Val(view[1].lowest_idx)].zone.id
               = view[1].lowest_zone[1].zone.id

\* The same where the zones shown have different names.
ShownNamesDiffer ==
    \A i, j \in 1..Len(view[1].zone_data) :
        view[1].zone_data[i].zone.name = view[1].zone_data[j].zone.name => i = j

IndexOfChosenEntryUniqueNames ==
    (view # <<>> /\ view[1].zone_data # <<>> /\ ShownNamesDiffer) =>
        /\ view[1].highest_idx # Null
        /\ view[1].lowest_idx # Null
        /\ view[1].zone_data[Val(view[1].highest_idx)].zone.id
               = view[1].highest_zone[1].zone.id
        /\ view[1].zone_data[Val(view[1].lowest_idx)].zone.id
               = view[1].lowest_zone[1].zone.id

\* C30: every non-null pct_diff compute_comparison returns is >= 0, for
\* every numeric simulated value and every numeric real value (negative
\* real temperatures included), like the abs_diff it is derived from.
C30_PctDiffNonNegative ==
    (cmp_out # <<>> /\ cmp_out[1].pct_diff # Null) =>
        /\ Val(cmp_out[1].abs_diff) >= 0
        /\ Val(cmp_out[1].pct_diff) >= 0

\* The same for real values above 0, and abs_diff for every real value.
PctDiffNonNegativeForPositiveReal ==
    (cmp_out # <<>> /\ cmp_out[1].abs_diff # Null) =>
        /\ Val(cmp_out[1].abs_diff) >= 0
        /\ (cmp_out[1].pct_diff # Null /\ cmp_in[2].v > 0) =>
              Val(cmp_out[1].pct_diff) >= 0

====
